---- MODULE Spec2Model ----
(***************************************************************************)
(* Model of the shemail IMAP orchestration layer (package imaputils):      *)
(* DeleteMessages, moveToTrash, findTrashFolder, ListFolders,              *)
(* purgeMessages, MoveMessages, EnsureFolder, moveToGmailTrash and         *)
(* SearchMessages, run against an IMAP server whose commands may fail.     *)
(*                                                                         *)
(* A folder name is a sequence of tokens: the token "/" is the hierarchy   *)
(* separator, every other token is a non-empty run of characters without   *)
(* "/"; two names are the same string exactly when they are the same       *)
(* token sequence.  A server host name is a sequence of characters.        *)
(* An error is the sequence of its wrapping contexts, outermost first,     *)
(* with the goroutine in which it arose (0: the caller's goroutine, i: the *)
(* goroutine of batch i); the error with no context is nil.                *)
(***************************************************************************)
EXTENDS Integers, Sequences, FiniteSets, TLC

\* ------------------------------------------------------------------ bounds
MaxMsgs == 3
MaxBatches == 2
MaxFolders == 2
MaxCalls == 2
MaxDate == 2
MaxTally == 3
MaxList == 4
MaxFetches == 3
MaxPool == 5

\* ------------------------------------------------------- program constants
DefaultBatchSize == 100
TrashBatchSize == 10

Slash == "/"
Inbox == <<"INBOX">>
GmailTrash == <<"[Gmail]", "/", "Trash">>
GmailHost == <<"g", "m", "a", "i", "l", ".", "c", "o", "m">>
FallbackTrash == <<"Deleted Items">>
DeletedFolderNames ==
    << <<"Trash">>, GmailTrash, <<"Deleted Items">>, <<"Deleted Messages">> >>

NoErr == [ctx |-> <<>>, origin |-> 0]
Err(msg) == [ctx |-> <<msg>>, origin |-> 0]

\* ------------------------------------------------------------ input domains
Servers ==
    { <<"i", "m", "a", "p", ".">> \o GmailHost,
      <<"t", "e", "s", "t", ".", "e", "x", ".", "c", "o", "m">>,
      <<"g", "m", "a", "i", "l", "-", "c", "o", "m">> }

\* the UIDs of the source folder start at FirstUid: the messages that had
\* the lower UIDs were expunged long ago
FirstUid == 2
Uids == FirstUid..(FirstUid + MaxMsgs - 1)
OtherUid == FirstUid + MaxMsgs

\* the message lists handed to the operations: distinct UIDs, in ascending
\* order or rotated (a search result is ordered by date, not by UID)
Rotation(n, r) == [i \in 1..n |-> ((i - 1 + r) % n) + FirstUid]
MessageLists == {<<>>} \cup { Rotation(n, r) : n \in 1..MaxMsgs, r \in 0..(MaxMsgs - 1) }

\* the lists in ascending order of UID
AscendingLists == {<<>>} \cup { Rotation(n, 0) : n \in 1..MaxMsgs }

BatchSizes == {-1, 0, 1, 2}

MoveDests == { <<"Archive">>, GmailTrash }
EnsurePaths ==
    { <<"Archive">>, <<"Parent", "/", "Child">>,
      <<"a", "/", "b", "/", "c">>, <<"/", "a">> }

Range(s) == { s[i] : i \in 1..Len(s) }

Prefixes(p) == { SubSeq(p, 1, k) : k \in 1..Len(p) }

\* --------------------------------------------------------- string helpers
\* strings.Contains
Contains(s, sub) ==
    \E i \in 0..(Len(s) - Len(sub)) : SubSeq(s, i + 1, i + Len(sub)) = sub

\* strings.Split(name, "/"): n separators give n+1 segments, empty ones kept
RECURSIVE SplitFrom(_, _, _)
SplitFrom(s, cur, acc) ==
    IF s = <<>> THEN Append(acc, cur)
    ELSE IF Head(s) = Slash
         THEN SplitFrom(Tail(s), <<>>, Append(acc, cur))
         ELSE SplitFrom(Tail(s), Append(cur, Head(s)), acc)

\* variant: the path is taken whole, as one segment
SplitWhole(s) == <<s>>

\* strings.Split(s, "/")
Split(s) == SplitFrom(s, <<>>, <<>>)

\* fmt.Errorf("<ctx>: %w", e)
Wrap(ctx, e) == [e EXCEPT !.ctx = <<ctx>> \o @]

\* the same error, raised in the goroutine of batch i
InBatch(i, e) == IF e = NoErr THEN NoErr ELSE [e EXCEPT !.origin = i]

\* ---------------------------------------------------------------- sessions
\* Every Dial of the dialer yields a new connection; a session is named by
\* the call that dialed it.
R(kind) == [kind |-> kind, idx |-> 0]
B(i) == [kind |-> "batch", idx |-> i]
MainKinds == {"list", "purge", "gmail", "init", "ensure", "verify", "search", "fetch"}
Roles == { R(k) : k \in MainKinds } \cup { B(i) : i \in 1..MaxBatches }

\* dials counts the Dial (or DialTLS) calls made for the session
NoSession ==
    [state |-> "none", opener |-> R("none"), cmds |-> <<>>, logouts |-> 0, dials |-> 0]

Command(cmd, by, name, uids, ok, hit) ==
    [cmd |-> cmd, by |-> by, name |-> name, uids |-> uids, ok |-> ok, hit |-> hit]

\* the session on which `by` issues a command, with the command recorded
Issue(ss, on, by, cmd, name, uids, ok, hit) ==
    [ss EXCEPT ![on].cmds = Append(@, Command(cmd, by, name, uids, ok, hit))]

\* IMAPClient.Logout (always deferred in this package)
Logout(ss, on, by) ==
    [ss EXCEPT ![on].cmds = Append(@, Command("Logout", by, <<>>, {}, TRUE, FALSE)),
               ![on].state = "loggedout",
               ![on].logouts = @ + 1]

ClientOutcomes == {"ok", "dial", "login"}
ConnectOutcomes == {"ok", "dial", "login", "select"}

\* getImapClient: Dial (or DialTLS), then Login
GetImapClientErr(o) ==
    CASE o = "dial" -> Wrap("failed to connect to server", Err("dial error"))
      [] o = "login" -> Wrap("failed to login", Err("login error"))
      [] OTHER -> NoErr

\* variant: a failed Dial is attempted a second time
GetImapClientRedial(ss, k, by, o) ==
    IF o = "dial" THEN [ss EXCEPT ![k].dials = @ + 2]
    ELSE LET d == [ss EXCEPT ![k] = [NoSession EXCEPT !.state = "dialed", !.opener = by,
                                                      !.dials = ss[k].dials + 1]]
             l == Issue(d, k, by, "Login", <<>>, {}, o # "login", FALSE)
         IN  IF o = "login" THEN l ELSE [l EXCEPT ![k].state = "loggedin"]

GetImapClient(ss, k, by, o) ==
    IF o = "dial" THEN [ss EXCEPT ![k].dials = @ + 1]
    ELSE LET d == [ss EXCEPT ![k] = [NoSession EXCEPT !.state = "dialed", !.opener = by,
                                                      !.dials = ss[k].dials + 1]]
             l == Issue(d, k, by, "Login", <<>>, {}, o # "login", FALSE)
         IN  IF o = "login" THEN l ELSE [l EXCEPT ![k].state = "loggedin"]

\* connectToMailbox: getImapClient, then Select(folder, readOnly)
ConnectToMailboxErr(o) ==
    CASE o = "ok" -> NoErr
      [] o = "select" -> Wrap("failed to select folder", Err("select error"))
      [] OTHER -> Wrap("failed to get IMAP client", GetImapClientErr(o))

ConnectToMailbox(ss, k, by, f, readOnly, o) ==
    IF o \in {"dial", "login"} THEN GetImapClient(ss, k, by, o)
    ELSE LET c == GetImapClient(ss, k, by, "ok")
             s == [c EXCEPT ![k].cmds =
                     Append(@, [cmd |-> "Select", by |-> by, name |-> f, uids |-> {},
                                ok |-> o = "ok", hit |-> FALSE, readOnly |-> readOnly])]
         IN  IF o = "ok" THEN [s EXCEPT ![k].state = "selected"] ELSE s

\* ------------------------------------------------------------ pure helpers
\* variant: the destination alone selects the Gmail path
IsGmailTrashAnyHost(server, dest) == dest = GmailTrash

\* MoveMessages: the Gmail special case
IsGmailTrash(server, dest) == Contains(server, GmailHost) /\ dest = GmailTrash

\* imap.Message: a message of the source folder is named by its UID; its
\* SeqNum is the sequence number it had when it was fetched, its rank in the
\* folder
Uid(m) == m
SeqNum(m) == m - FirstUid + 1

\* variant: the set is built from the sequence numbers
CreateSeqSetBySeqNum(msgs) == { SeqNum(msgs[i]) : i \in 1..Len(msgs) }

\* createSeqSet, and the same loop in MoveMessages: seqSet.AddNum(msg.Uid)
CreateSeqSet(msgs) == { Uid(msgs[i]) : i \in 1..Len(msgs) }

\* MoveMessages: batchSize <= 0 is replaced by the default
EffectiveBatchSize(b) == IF b <= 0 THEN DefaultBatchSize ELSE b

\* variant: every batch runs to the end of the list
BatchEndAll(i, b, n) == n

\* MoveMessages: end index of the batch starting at offset i
BatchEnd(i, b, n) == IF i + b > n THEN n ELSE i + b

\* variant: the message after each batch is left out
RECURSIVE BatchesFromGapped(_, _, _)
BatchesFromGapped(msgs, b, i) ==
    IF i < Len(msgs)
    THEN <<SubSeq(msgs, i + 1, BatchEnd(i, b, Len(msgs)))>>
             \o BatchesFromGapped(msgs, b, i + b + 1)
    ELSE <<>>

\* MoveMessages: for i := 0; i < len(messages); i += batchSize
RECURSIVE BatchesFrom(_, _, _)
BatchesFrom(msgs, b, i) ==
    IF i < Len(msgs)
    THEN <<SubSeq(msgs, i + 1, BatchEnd(i, b, Len(msgs)))>>
             \o BatchesFrom(msgs, b, i + b)
    ELSE <<>>

MakeBatches(msgs, b) == BatchesFrom(msgs, b, 0)

\* errgroup.Group: the first error reported by a task is kept
\* variant: the last error reported wins
GroupErrLast(old, e) == IF e # NoErr THEN e ELSE old

GroupErr(old, e) == IF e # NoErr /\ old = NoErr THEN e ELSE old

\* MoveMessages: the verification test on one fetched UID
VerifyHit(fetchOk, messageFound) == fetchOk /\ messageFound

\* findTrashFolder: the loops over the listing and over DeletedFolderNames
RECURSIVE TrashNameMatching(_, _)
TrashNameMatching(f, names) ==
    IF names = <<>> THEN <<>>
    ELSE IF f = Head(names) THEN <<Head(names)>>
    ELSE TrashNameMatching(f, Tail(names))

\* variant: the fallback is the first well-known name
FindTrashFolderFirstName(mailboxes) ==
    LET listed == { i \in 1..Len(mailboxes) : mailboxes[i] \in Range(DeletedFolderNames) }
    IN  IF listed = {} THEN DeletedFolderNames[1]
        ELSE mailboxes[CHOOSE i \in listed : \A j \in listed : i <= j]

RECURSIVE FindTrashFolder(_)
FindTrashFolder(mailboxes) ==
    IF mailboxes = <<>> THEN FallbackTrash
    ELSE LET m == TrashNameMatching(Head(mailboxes), DeletedFolderNames)
         IN  IF m # <<>> THEN m[1] ELSE FindTrashFolder(Tail(mailboxes))

\* variant: the empty-input test is missing
NeverNothingToDelete(msgs) == FALSE

\* DeleteMessages: the empty-input test
NothingToDelete(msgs) == Len(msgs) = 0

\* variant: every prefix is created
AlwaysNeedsCreate(exists) == TRUE

\* variant: no listed mailbox is ever taken to be the folder asked for
NeverListed(resp, name) == FALSE

\* EnsureFolder: a prefix is created when its List did not return it
NeedsCreate(exists) == ~exists

\* the server's answer to List("", name): the folder of that name, if any
\* (the empty name is answered with the hierarchy root)
ListExact(fs, name) == IF name = <<>> \/ name \in fs THEN <<name>> ELSE <<>>

\* EnsureFolder: for mailbox := range mailboxes { if mailbox.Name == name }
ListedExists(resp, name) == \E i \in 1..Len(resp) : resp[i] = name

\* every order in which the server may list a set of folders
Orderings(fs) ==
    { s \in [1..Cardinality(fs) -> fs] : \A f \in fs : \E i \in DOMAIN s : s[i] = f }

\* a Go slice: nil, or made, with its elements
NilSlice == [made |-> FALSE, elems |-> <<>>]
\* []*imap.Message{}
EmptySlice == [made |-> TRUE, elems |-> <<>>]
\* append(s, x...): nil stays nil when nothing is appended
AppendAll(s, xs) == IF xs = <<>> THEN s ELSE [made |-> TRUE, elems |-> s.elems \o xs]

\* Message.InternalDate of the message with UID u (two messages may carry
\* the same date)
InternalDate(u) == (u + 1) \div 2

\* variant: the earliest message comes first
SortMessagesByDateAscending(S) ==
    { s \in Orderings(S) :
        \A i, j \in DOMAIN s : i < j => ~(InternalDate(s[j]) < InternalDate(s[i])) }

\* sortMessagesByDate: sort.Slice with InternalDate.After as "less"; the sort
\* is not stable, messages of equal date may come out in either order
SortMessagesByDate(S) ==
    { s \in Orderings(S) :
        \A i, j \in DOMAIN s : i < j => ~(InternalDate(s[j]) > InternalDate(s[i])) }

\* -------------------------------------------------------- search criteria
\* SearchOptions: every field is a pointer, <<>> when nil and <<v>> when it
\* points to v.  A time.Time is an instant, here at midnight UTC: the number
\* of its day, day 1 being the first of January of the first of Years; the
\* zero time.Time is day 0.
HeaderFields == {"To", "From", "Subject"}
HeaderValues == [To |-> "recipient", From |-> "sender", Subject |-> "test"]

Years == 2023..2024
Months == 1..12

\* package time: isLeap, daysBefore, daysSinceEpoch
IsLeap(y) == y % 4 = 0 /\ (y % 100 # 0 \/ y % 400 = 0)
DaysBefore == <<0, 31, 59, 90, 120, 151, 181, 212, 243, 273, 304, 334, 365>>
DaysIn(y, m) == DaysBefore[m + 1] - DaysBefore[m] + (IF m = 2 /\ IsLeap(y) THEN 1 ELSE 0)
RECURSIVE DaysSinceEpoch(_)
DaysSinceEpoch(y) ==
    IF y - 1 \in Years
    THEN DaysSinceEpoch(y - 1) + (IF IsLeap(y - 1) THEN 366 ELSE 365)
    ELSE 0

\* time.Date(y, m, d, 0, 0, 0, 0, time.UTC): the days before the year, the
\* days before the month, the day; a day past the end of the month runs on
\* into the next month
Date(y, m, d) ==
    DaysSinceEpoch(y) + DaysBefore[m] + (IF IsLeap(y) /\ m >= 3 THEN 1 ELSE 0) + d

\* Time.Date(): the year of an instant, then its month in the year, then its
\* day in the month
Civil(t) ==
    LET y == CHOOSE yy \in Years : Date(yy, 1, 1) <= t /\ t <= Date(yy, 12, 31)
        m == CHOOSE mm \in Months : Date(y, mm, 1) <= t /\ t <= Date(y, mm, DaysIn(y, mm))
    IN  [year |-> y, month |-> m, day |-> t - Date(y, m, 1) + 1]

\* the dates handed to the builders: the last MaxDate - 1 days of a month and
\* the first day of the next, for a January, a February of a leap year, a
\* February of a common year, a December
MonthEnds == {<<2024, 1>>, <<2024, 2>>, <<2023, 2>>, <<2023, 12>>}
Dates ==
    UNION { LET last == Date(ym[1], ym[2], DaysIn(ym[1], ym[2]))
            IN  (last - MaxDate + 2)..(last + 1) : ym \in MonthEnds }
Pointers(S) == {<<>>} \cup { <<v>> : v \in S }

SearchOptions ==
    [To : Pointers({HeaderValues.To}), From : Pointers({HeaderValues.From}),
     Subject : Pointers({HeaderValues.Subject}),
     StartDate : Pointers(Dates), EndDate : Pointers(Dates),
     Seen : Pointers(BOOLEAN), Unseen : Pointers(BOOLEAN)]

NoOptions ==
    [To |-> <<>>, From |-> <<>>, Subject |-> <<>>, StartDate |-> <<>>,
     EndDate |-> <<>>, Seen |-> <<>>, Unseen |-> <<>>]

SeenFlag == "\\Seen"

\* a Go map: nil, or made, with its entries as <<key, values>> pairs
NilMap == [made |-> FALSE, entries |-> {}]
MakeMap == [made |-> TRUE, entries |-> {}]
MapWith(field, value) == [made |-> TRUE, entries |-> {<<field, <<value>>>>}]
\* m[field] = values
MapSet(m, field, values) ==
    [made |-> TRUE,
     entries |-> { e \in m.entries : e[1] # field } \cup {<<field, values>>}]

\* &imap.SearchCriteria{}: every field at its zero value
ZeroCriteria ==
    [Header |-> NilMap, Since |-> 0, Before |-> 0, SentSince |-> 0, SentBefore |-> 0,
     WithFlags |-> <<>>, WithoutFlags |-> <<>>, Or |-> <<>>]

\* initializeCriteria
InitializeCriteria == [ZeroCriteria EXCEPT !.Header = MakeMap]

\* variant: the day after the last day of a month is that last day
AddDayClamped(t) ==
    LET c == Civil(t)
    IN  Date(c.year, c.month, IF c.day < DaysIn(c.year, c.month) THEN c.day + 1 ELSE c.day)

\* EndDate.AddDate(0, 0, 1): Date(year, month, day + 1) of the instant's
\* year, month and day
AddDay(t) ==
    LET c == Civil(t)
    IN  Date(c.year, c.month, c.day + 1)

\* addHeaderCriteria: the order of the assignments to the map does not show
AddHeaderCriteria(c, o) ==
    LET set(cr, f) == IF o[f] # <<>>
                      THEN [cr EXCEPT !.Header = MapSet(@, f, <<o[f][1]>>)] ELSE cr
    IN  set(set(set(c, "To"), "From"), "Subject")

\* addDateCriteria
AddDateCriteria(c, o) ==
    LET s == IF o.StartDate # <<>>
             THEN [c EXCEPT !.Since = o.StartDate[1], !.SentSince = o.StartDate[1]]
             ELSE c
    IN  IF o.EndDate # <<>>
        THEN [s EXCEPT !.Before = AddDay(o.EndDate[1]), !.SentBefore = AddDay(o.EndDate[1])]
        ELSE s

\* opts.Seen != nil && *opts.Seen
IsTrue(ptr) == ptr # <<>> /\ ptr[1]

\* variant: Unseen is looked at only when Seen is not asked for
AddFlagCriteriaExclusive(c, o) ==
    IF IsTrue(o.Seen) THEN [c EXCEPT !.WithFlags = <<SeenFlag>>]
    ELSE IF IsTrue(o.Unseen) THEN [c EXCEPT !.WithoutFlags = <<SeenFlag>>] ELSE c

\* addFlagCriteria
AddFlagCriteria(c, o) ==
    LET s == IF IsTrue(o.Seen) THEN [c EXCEPT !.WithFlags = <<SeenFlag>>] ELSE c
    IN  IF IsTrue(o.Unseen) THEN [s EXCEPT !.WithoutFlags = <<SeenFlag>>] ELSE s

BuildSearchCriteria(o) ==
    AddFlagCriteria(AddDateCriteria(AddHeaderCriteria(InitializeCriteria, o), o), o)

\* buildHeaderCriteria: one criteria per header field that is set, in the
\* order `order` in which the range over the map visits the fields
RECURSIVE BuildHeaderCriteria(_, _)
BuildHeaderCriteria(o, order) ==
    IF order = <<>> THEN <<>>
    ELSE (IF o[Head(order)] # <<>>
          THEN <<[ZeroCriteria EXCEPT !.Header = MapWith(Head(order), o[Head(order)][1])]>>
          ELSE <<>>)
         \o BuildHeaderCriteria(o, Tail(order))

\* variant: each bound is a leaf of its own, also when both are set
BuildDateRangeCriteriaSplit(o) ==
    (IF o.StartDate # <<>>
     THEN <<[ZeroCriteria EXCEPT !.Since = o.StartDate[1],
                                 !.SentSince = o.StartDate[1]]>>
     ELSE <<>>)
    \o (IF o.EndDate # <<>>
        THEN <<[ZeroCriteria EXCEPT !.Before = AddDay(o.EndDate[1]),
                                    !.SentBefore = AddDay(o.EndDate[1])]>>
        ELSE <<>>)

\* buildDateRangeCriteria
BuildDateRangeCriteria(o) ==
    IF o.StartDate # <<>> /\ o.EndDate # <<>>
    THEN <<[ZeroCriteria EXCEPT !.Since = o.StartDate[1],
                                !.Before = AddDay(o.EndDate[1]),
                                !.SentSince = o.StartDate[1],
                                !.SentBefore = AddDay(o.EndDate[1])]>>
    ELSE (IF o.StartDate # <<>>
          THEN <<[ZeroCriteria EXCEPT !.Since = o.StartDate[1],
                                      !.SentSince = o.StartDate[1]]>>
          ELSE <<>>)
         \o (IF o.EndDate # <<>>
             THEN <<[ZeroCriteria EXCEPT !.Before = AddDay(o.EndDate[1]),
                                         !.SentBefore = AddDay(o.EndDate[1])]>>
             ELSE <<>>)

\* variant: a flag that is present gives a criteria, whatever its value
BuildFlagCriteriaPresent(o) ==
    (IF o.Seen # <<>> THEN <<[ZeroCriteria EXCEPT !.WithFlags = <<SeenFlag>>]>> ELSE <<>>)
    \o (IF o.Unseen # <<>> THEN <<[ZeroCriteria EXCEPT !.WithoutFlags = <<SeenFlag>>]>>
        ELSE <<>>)

\* buildFlagCriteria
BuildFlagCriteria(o) ==
    (IF IsTrue(o.Seen) THEN <<[ZeroCriteria EXCEPT !.WithFlags = <<SeenFlag>>]>> ELSE <<>>)
    \o (IF IsTrue(o.Unseen) THEN <<[ZeroCriteria EXCEPT !.WithoutFlags = <<SeenFlag>>]>>
        ELSE <<>>)

\* buildIndividualCriteria
BuildIndividualCriteria(o, order) ==
    BuildHeaderCriteria(o, order) \o BuildDateRangeCriteria(o) \o BuildFlagCriteria(o)

\* variant: the chain is nested to the left, (A OR B) OR C
RECURSIVE BuildORChainLeft(_)
BuildORChainLeft(list) ==
    IF Len(list) = 2
    THEN [ZeroCriteria EXCEPT !.Or = << <<list[1], list[2]>> >>]
    ELSE [ZeroCriteria EXCEPT
            !.Or = << <<BuildORChainLeft(SubSeq(list, 1, Len(list) - 1)), list[Len(list)]>> >>]

\* buildORChain
RECURSIVE BuildORChain(_)
BuildORChain(list) ==
    IF Len(list) = 2
    THEN [ZeroCriteria EXCEPT !.Or = << <<list[1], list[2]>> >>]
    ELSE [ZeroCriteria EXCEPT !.Or = << <<list[1], BuildORChain(Tail(list))>> >>]

\* variant: a single criteria is wrapped too
CombineAlwaysWrapped(list) ==
    CASE Len(list) = 0 -> ZeroCriteria
      [] Len(list) = 1 -> [ZeroCriteria EXCEPT !.Or = << <<list[1], list[1]>> >>]
      [] OTHER -> BuildORChain(list)

\* combineCriteriaWithOR
CombineCriteriaWithOR(list) ==
    CASE Len(list) = 0 -> ZeroCriteria
      [] Len(list) = 1 -> list[1]
      [] OTHER -> BuildORChain(list)

\* BuildORSearchCriteria, the header map visited in the order `order`
BuildORSearchCriteria(o, order) ==
    CombineCriteriaWithOR(BuildIndividualCriteria(o, order))

\* ------------------------------------------------------------------- state
VARIABLES
    entry,        \* the operation invoked: "Delete", "Move" or "Ensure"
    account,      \* [Server, Purge]
    messages,     \* the UIDs of the messages handed to the operation
    folder,       \* source folder
    destFolder,   \* destination of MoveMessages
    batchSize,    \* batchSize argument of MoveMessages
    folderName,   \* argument of EnsureFolder
    folders,      \* server: the existing folders
    inSource,     \* server: UIDs in the source folder
    inDest,       \* server: UIDs (of the source) now in the destination
    flagged,      \* server: UIDs of the source carrying \Deleted
    sessions,     \* every session with the commands issued on it
    pc,           \* position of the calling goroutine
    result,       \* error returned by the operation (NoErr = nil)
    segs,         \* EnsureFolder: strings.Split(folderName, "/")
    segIdx,       \* EnsureFolder: loop index (1-based)
    currentPath,  \* EnsureFolder: currentPath
    batches,      \* MoveMessages: batches
    bpc,          \* MoveMessages: position of every batch goroutine
    gErr,         \* MoveMessages: the error kept by the errgroup
    firstFailed,  \* history: the batch whose goroutine failed first (0: none)
    verifyIdx,    \* MoveMessages: index of the verification loop
    calls,        \* how many times the caller has invoked EnsureFolder
    uidsFound,    \* SearchMessages: uids, the UIDs returned by UID SEARCH
    fetched,      \* fetchMessagesByUID: the messages received on the channel
    found,        \* SearchMessages: the slice of messages returned, by UID
    opts,         \* the SearchOptions handed to the criteria builders
    built,        \* the builders that have been called: "and", "or"
    andCriteria,  \* the result of BuildSearchCriteria
    orCriteria,   \* the result of BuildORSearchCriteria
    folderMessages, \* CountMessagesBySender: the From list of every message fetched
    threshold,    \* CountMessagesBySender: threshold
    messageChan,  \* CountMessagesBySender: the messages in the channel, by index
    sendIdx,      \* CountMessagesBySender: the messages sent so far
    closed,       \* CountMessagesBySender: messageChan is closed
    workers,      \* CountMessagesBySender: position and locals of every worker
    mu,           \* CountMessagesBySender: the worker holding the mutex (0: none)
    senderCounts, \* CountMessagesBySender: the tally map
    takenBy,      \* history: the workers that received each message
    senderCountList, \* CountMessagesBySender: the entries kept, before the sort
    sortedList,   \* CountMessagesBySender: the entries after the sort
    sortedBy,     \* history: the sort that was run
    tableData,    \* CountMessagesBySender: the rows returned
    mboxMessages, \* FetchMessages: mbox.Messages
    loopI,        \* FetchMessages: the loop variable i
    fetchCmds,    \* history: the ranges of the Fetch commands issued
    fetchedMessages, \* FetchMessages: the slice the messages are appended to
    returned      \* FetchMessages: the slice returned

inputs == <<entry, account, messages, folder, calls>>
server == <<folders, inSource, inDest, flagged>>
ensure == <<segs, segIdx, currentPath>>
search == <<uidsFound, fetched, found>>
builder == <<opts, built, andCriteria, orCriteria>>
tally == <<folderMessages, threshold, messageChan, sendIdx, closed, workers, mu,
           senderCounts, takenBy, senderCountList, sortedList, sortedBy, tableData>>
fetching == <<mboxMessages, loopI, fetchCmds, fetchedMessages, returned>>
group == <<batches, bpc, gErr, firstFailed>>
vars == <<entry, account, messages, folder, destFolder, batchSize, folderName,
          folders, inSource, inDest, flagged, sessions, pc, result,
          segs, segIdx, currentPath, batches, bpc, gErr, firstFailed, verifyIdx,
          calls, uidsFound, fetched, found, opts, built, andCriteria, orCriteria,
          folderMessages, threshold, messageChan, sendIdx, closed, workers, mu,
          senderCounts, takenBy, senderCountList, sortedList, sortedBy, tableData,
          mboxMessages, loopI, fetchCmds, fetchedMessages, returned>>

TrashNames == { DeletedFolderNames[i] : i \in 1..Len(DeletedFolderNames) }

\* ---------------------------------------------------------------- uint32
FetchBatchSize == 1000

\* A uint32 is written as its thousands and its units, Num(k, u) standing for
\* 1000 k + u with u below 1000: mbox.Messages, the loop variable i and the
\* bounds of a batch are uint32, and their arithmetic wraps at 2^32.
Num(k, u) == [k |-> k, u |-> u]
\* 2^32 = 4294967296
Modulus == Num(4294967, 296)
Zero == Num(0, 0)
One == Num(0, 1)

Lt(a, b) == a.k < b.k \/ (a.k = b.k /\ a.u < b.u)
Le(a, b) == a = b \/ Lt(a, b)
\* a - b, for b <= a
Minus(a, b) ==
    IF a.u >= b.u THEN Num(a.k - b.k, a.u - b.u)
    ELSE Num(a.k - b.k - 1, a.u + FetchBatchSize - b.u)

\* a + n in uint32, for 0 <= n < 2^32: the sum is reduced modulo 2^32
Plus(a, n) ==
    LET sum == Num(a.k + ((a.u + n) \div FetchBatchSize), (a.u + n) % FetchBatchSize)
    IN  IF Lt(sum, Modulus) THEN sum ELSE Minus(sum, Modulus)

\* FetchMessages: end := i + batchSize - 1; if end > mbox.Messages { end = mbox.Messages }
BatchEndOf(i, n) ==
    LET end == Plus(i, FetchBatchSize - 1)
    IN  IF Lt(n, end) THEN n ELSE end

\* SeqSet.AddRange(start, stop): the bounds are put in order (a stop of 0
\* stands for "*" and is kept as the stop)
AddRange(start, stop) ==
    IF (Lt(stop, start) /\ stop # Zero) \/ start = Zero
    THEN [from |-> stop, to |-> start]
    ELSE [from |-> start, to |-> stop]

\* the numbers of messages a mailbox may report: up to MaxFetches batches,
\* full or not, and the largest numbers a uint32 holds
MailboxSizes ==
    { Num(b, r) : b \in 0..(MaxFetches - 1), r \in {0, 1, 500, 999} }
      \cup {Num(MaxFetches, 0)}
      \cup {Minus(Modulus, One), Num(Modulus.k, 1), Num(Modulus.k, 0)}

InitCommon ==
    /\ folder = Inbox
    /\ inSource = Uids \cup {OtherUid}
    /\ inDest = {}
    /\ sessions = [k \in Roles |-> NoSession]
    /\ result = NoErr
    /\ segs = <<>>
    /\ segIdx = 0
    /\ currentPath = <<>>
    /\ batches = <<>>
    /\ bpc = <<>>
    /\ gErr = NoErr
    /\ firstFailed = 0
    /\ verifyIdx = 0
    /\ calls = 1
    /\ uidsFound = {}
    /\ fetched = <<>>
    /\ found = NilSlice
    /\ messageChan = <<>>
    /\ sendIdx = 0
    /\ closed = FALSE
    /\ workers = <<>>
    /\ mu = 0
    /\ senderCounts = <<>>
    /\ takenBy = <<>>
    /\ sortedList = <<>>
    /\ sortedBy = "none"
    /\ tableData = <<>>
    /\ mboxMessages = Zero
    /\ loopI = Zero
    /\ fetchCmds = <<>>
    /\ fetchedMessages = NilSlice
    /\ returned = NilSlice

\* the operations on the mailbox count no senders
InitNoTally ==
    /\ folderMessages = <<>>
    /\ threshold = 0
    /\ senderCountList = <<>>

\* no criteria builder runs in the operations on the mailbox
InitNoBuilder ==
    /\ opts = NoOptions
    /\ built = {}
    /\ andCriteria = ZeroCriteria
    /\ orCriteria = ZeroCriteria

\* DeleteMessages moves its messages in one batch and never looks at their
\* order: the lists are taken in ascending order
InitDelete ==
    /\ entry = "Delete"
    /\ pc = "DeleteMessages"
    /\ account \in [Server : Servers, Purge : BOOLEAN]
    /\ messages \in AscendingLists
    /\ destFolder = <<>>
    /\ batchSize = 0
    /\ folderName = <<>>
    /\ folders \in { {Inbox} \cup t : t \in { u \in SUBSET TrashNames : Cardinality(u) <= MaxFolders } }
    /\ flagged \in {{}, {OtherUid}}

\* the destination and its parents all exist, or none of them does; at most
\* MaxBatches batch goroutines run at once
InitMove ==
    /\ entry = "Move"
    /\ pc = "MoveMessages"
    /\ account \in [Server : Servers, Purge : {FALSE}]
    /\ messages \in MessageLists
    /\ destFolder \in MoveDests
    /\ batchSize \in BatchSizes
    /\ batchSize <= 0 \/ Len(messages) <= batchSize * MaxBatches
    /\ folderName = <<>>
    /\ folders \in { {Inbox}, {Inbox} \cup Prefixes(destFolder) }
    /\ flagged = {}

InitEnsure ==
    /\ entry = "Ensure"
    /\ pc = "EnsureFolder"
    /\ account \in [Server : Servers, Purge : {FALSE}]
    /\ messages = <<>>
    /\ destFolder = <<>>
    /\ batchSize = 0
    /\ folderName \in EnsurePaths
    /\ folders \in { {Inbox} \cup t : t \in SUBSET Prefixes(folderName) }
    /\ flagged = {}

InitSearch ==
    /\ entry = "Search"
    /\ pc = "SearchMessages"
    /\ account \in [Server : Servers, Purge : {FALSE}]
    /\ messages = <<>>
    /\ destFolder = <<>>
    /\ batchSize = 0
    /\ folderName = <<>>
    /\ folders = {Inbox}
    /\ flagged = {}

Init ==
    /\ InitCommon /\ InitNoBuilder /\ InitNoTally
    /\ (InitDelete \/ InitMove \/ InitEnsure \/ InitSearch)

\* ------------------------------------------------------------ DeleteMessages
Done(e) == pc' = "done" /\ result' = e

\* the error DeleteMessages returns for an error of purgeMessages/moveToTrash
DeleteErr(e) == IF e = NoErr THEN NoErr ELSE Wrap("failed to delete messages", e)

\* MoveMessages returns e to its caller (moveToTrash or the command layer)
MoveReturn(e) ==
    Done(IF entry = "Delete"
         THEN DeleteErr(IF e = NoErr THEN NoErr ELSE Wrap("failed to move messages", e))
         ELSE e)

DeleteMessages ==
    /\ pc = "DeleteMessages"
    /\ IF NothingToDelete(messages)
       THEN Done(NoErr)
       ELSE /\ pc' = IF account.Purge THEN "purgeMessages" ELSE "ListFolders"
            /\ UNCHANGED result
    /\ UNCHANGED <<builder, tally, fetching, inputs, search, destFolder, batchSize, folderName, server, sessions,
                   ensure, group, verifyIdx>>

\* purgeMessages: connectToMailbox
PurgeConnect ==
    /\ pc = "purgeMessages"
    /\ \E o \in ConnectOutcomes :
          /\ sessions' = ConnectToMailbox(sessions, R("purge"), R("purge"), folder, FALSE, o)
          /\ IF o = "ok"
             THEN pc' = "purgeStore" /\ UNCHANGED result
             ELSE Done(DeleteErr(Wrap("failed to connect to mailbox", ConnectToMailboxErr(o))))
    /\ UNCHANGED <<builder, tally, fetching, inputs, search, destFolder, batchSize, folderName, server,
                   ensure, group, verifyIdx>>

\* variant: the error of the UID STORE is ignored
PurgeAfterStoreIgnore(ok) == "purgeExpunge"

\* position after the UID STORE of purgeMessages
PurgeAfterStore(ok) == IF ok THEN "purgeExpunge" ELSE "done"

\* purgeMessages: UidStore(+FLAGS.SILENT \Deleted)
PurgeStore ==
    /\ pc = "purgeStore"
    /\ \E ok \in BOOLEAN :
          LET c == Issue(sessions, R("purge"), R("purge"), "UidStore", <<>>,
                         CreateSeqSet(messages), ok, FALSE)
          IN  /\ flagged' = IF ok THEN flagged \cup (CreateSeqSet(messages) \cap inSource)
                                   ELSE flagged
              /\ pc' = PurgeAfterStore(ok)
              /\ IF pc' = "done"
                 THEN /\ sessions' = Logout(c, R("purge"), R("purge"))
                      /\ result' = DeleteErr(Wrap("failed to mark messages as deleted", Err("store error")))
                 ELSE /\ sessions' = c
                      /\ UNCHANGED result
    /\ UNCHANGED <<builder, tally, fetching, inputs, search, destFolder, batchSize, folderName, folders, inSource,
                   inDest, ensure, group, verifyIdx>>

\* purgeMessages: Expunge, then the deferred Logout
PurgeExpunge ==
    /\ pc = "purgeExpunge"
    /\ \E ok \in BOOLEAN :
          LET c == Issue(sessions, R("purge"), R("purge"), "Expunge", <<>>, {}, ok, FALSE)
          IN  /\ inSource' = IF ok THEN inSource \ flagged ELSE inSource
              /\ flagged' = IF ok THEN {} ELSE flagged
              /\ sessions' = Logout(c, R("purge"), R("purge"))
              /\ Done(DeleteErr(IF ok THEN NoErr
                                ELSE Wrap("failed to expunge messages", Err("expunge error"))))
    /\ UNCHANGED <<builder, tally, fetching, inputs, search, destFolder, batchSize, folderName, folders, inDest,
                   ensure, group, verifyIdx>>

\* variant: the names are collected in the reverse of the listing order
ListFoldersResultReversed(mailboxes) ==
    AppendAll(NilSlice, [i \in 1..Len(mailboxes) |-> mailboxes[Len(mailboxes) + 1 - i]])

\* ListFolders: var folders []string, the name of each mailbox appended as
\* the server lists it
ListFoldersResult(mailboxes) == AppendAll(NilSlice, mailboxes)

\* ListFolders returns the list s and the error e to its caller: the command
\* layer, or findTrashFolder, which drops the list and wraps the error for
\* moveToTrash and DeleteMessages
ListFoldersReturn(s, e) ==
    /\ returned' = IF entry = "List" THEN s ELSE returned
    /\ Done(IF entry = "List" THEN e
            ELSE DeleteErr(Wrap("failed to find trash folder", Wrap("failed to list folders", e))))

\* ListFolders (called by the command layer, or by moveToTrash ->
\* findTrashFolder): getImapClient
ListFoldersDial ==
    /\ pc = "ListFolders"
    /\ \E o \in ClientOutcomes :
          /\ sessions' = GetImapClient(sessions, R("list"), R("list"), o)
          /\ IF o = "ok"
             THEN pc' = "listFolders" /\ UNCHANGED <<result, returned>>
             ELSE ListFoldersReturn(EmptySlice, Wrap("failed to initialize imap client",
                                                     GetImapClientErr(o)))
    /\ UNCHANGED <<builder, tally, mboxMessages, loopI, fetchCmds, fetchedMessages, inputs, search,
                   destFolder, batchSize, folderName, server, ensure, group, verifyIdx>>

\* ListFolders: List("", "*"), the deferred Logout; for moveToTrash,
\* findTrashFolder picks the folder from the list returned, which is local to
\* it, and MoveMessages is called with the folder.  The command log keeps the
\* server's listing when ListFolders is called on its own.
ListFoldersList ==
    /\ pc = "listFolders"
    /\ \E ok \in BOOLEAN, mailboxes \in Orderings(folders) :
          LET c == [sessions EXCEPT ![R("list")].cmds =
                      Append(@, [cmd |-> "List", by |-> R("list"), name |-> <<"*">>,
                                 uids |-> {}, ok |-> ok, hit |-> FALSE,
                                 resp |-> IF entry = "List" THEN mailboxes ELSE <<>>])]
          IN  /\ sessions' = Logout(c, R("list"), R("list"))
              /\ IF ~ok
                 THEN /\ ListFoldersReturn(NilSlice,
                                          Wrap("failed to list folders", Err("list error")))
                      /\ UNCHANGED <<destFolder, batchSize>>
                 ELSE IF entry = "List"
                      THEN /\ ListFoldersReturn(ListFoldersResult(mailboxes), NoErr)
                           /\ UNCHANGED <<destFolder, batchSize>>
                      ELSE /\ destFolder' = FindTrashFolder(ListFoldersResult(mailboxes).elems)
                           /\ batchSize' = TrashBatchSize
                           /\ pc' = "MoveMessages"
                           /\ UNCHANGED <<result, returned>>
    /\ UNCHANGED <<builder, tally, mboxMessages, loopI, fetchCmds, fetchedMessages, inputs, search,
                   folderName, server, ensure, group, verifyIdx>>

\* -------------------------------------------------------------- MoveMessages
\* MoveMessages: the Gmail test that selects moveToGmailTrash
MoveMessages ==
    /\ pc = "MoveMessages"
    /\ pc' = IF IsGmailTrash(account.Server, destFolder)
             THEN "moveToGmailTrash" ELSE "initConnect"
    /\ UNCHANGED <<builder, tally, fetching, inputs, search, destFolder, batchSize, folderName, server, sessions,
                   result, ensure, group, verifyIdx>>

\* moveToGmailTrash: connectToMailbox
GmailConnect ==
    /\ pc = "moveToGmailTrash"
    /\ \E o \in ConnectOutcomes :
          /\ sessions' = ConnectToMailbox(sessions, R("gmail"), R("gmail"), folder, FALSE, o)
          /\ IF o = "ok"
             THEN pc' = "gmailCopy" /\ UNCHANGED result
             ELSE MoveReturn(Wrap("failed to connect to mailbox", ConnectToMailboxErr(o)))
    /\ UNCHANGED <<builder, tally, fetching, inputs, search, destFolder, batchSize, folderName, server,
                   ensure, group, verifyIdx>>

\* variant: a failed step does not stop the sequence
GmailAfterIgnore(step, ok) ==
    CASE step = "gmailCopy" -> "gmailStore"
      [] step = "gmailStore" -> "gmailExpunge"
      [] OTHER -> "done"

\* variant: the error of the UID STORE alone is not checked
GmailAfterStoreUnchecked(step, ok) ==
    CASE step = "gmailCopy" -> IF ok THEN "gmailStore" ELSE "done"
      [] step = "gmailStore" -> "gmailExpunge"
      [] OTHER -> "done"

\* moveToGmailTrash: the step that follows a step, given its outcome
GmailAfter(step, ok) ==
    IF ~ok THEN "done"
    ELSE CASE step = "gmailCopy" -> "gmailStore"
           [] step = "gmailStore" -> "gmailExpunge"
           [] OTHER -> "done"

GmailStepErr(step) ==
    CASE step = "gmailCopy" -> Wrap("failed to copy messages to trash", Err("copy error"))
      [] step = "gmailStore" -> Wrap("failed to flag messages as deleted", Err("store error"))
      [] OTHER -> Wrap("failed to expunge messages", Err("expunge error"))

\* what follows one command of moveToGmailTrash: the next step, or the
\* return with the deferred Logout
GmailContinue(step, ok, c) ==
    /\ pc' = GmailAfter(step, ok)
    /\ IF pc' = "done"
       THEN /\ sessions' = Logout(c, R("gmail"), R("gmail"))
            /\ MoveReturn(IF ok THEN NoErr ELSE GmailStepErr(step))
       ELSE /\ sessions' = c
            /\ UNCHANGED result

\* moveToGmailTrash: UidCopy(seqSet, "[Gmail]/Trash")
GmailCopy ==
    /\ pc = "gmailCopy"
    /\ \E ok \in BOOLEAN :
          /\ inDest' = IF ok THEN inDest \cup (CreateSeqSet(messages) \cap inSource) ELSE inDest
          /\ GmailContinue("gmailCopy", ok,
                Issue(sessions, R("gmail"), R("gmail"), "UidCopy", GmailTrash,
                      CreateSeqSet(messages), ok, FALSE))
    /\ UNCHANGED <<builder, tally, fetching, inputs, search, destFolder, batchSize, folderName, folders, inSource,
                   flagged, ensure, group, verifyIdx>>

\* moveToGmailTrash: UidStore(+FLAGS.SILENT \Deleted)
GmailStore ==
    /\ pc = "gmailStore"
    /\ \E ok \in BOOLEAN :
          /\ flagged' = IF ok THEN flagged \cup (CreateSeqSet(messages) \cap inSource) ELSE flagged
          /\ GmailContinue("gmailStore", ok,
                Issue(sessions, R("gmail"), R("gmail"), "UidStore", <<>>,
                      CreateSeqSet(messages), ok, FALSE))
    /\ UNCHANGED <<builder, tally, fetching, inputs, search, destFolder, batchSize, folderName, folders, inSource,
                   inDest, ensure, group, verifyIdx>>

\* moveToGmailTrash: Expunge
GmailExpunge ==
    /\ pc = "gmailExpunge"
    /\ \E ok \in BOOLEAN :
          /\ inSource' = IF ok THEN inSource \ flagged ELSE inSource
          /\ flagged' = IF ok THEN {} ELSE flagged
          /\ GmailContinue("gmailExpunge", ok,
                Issue(sessions, R("gmail"), R("gmail"), "Expunge", <<>>, {}, ok, FALSE))
    /\ UNCHANGED <<builder, tally, fetching, inputs, search, destFolder, batchSize, folderName, folders, inDest,
                   ensure, group, verifyIdx>>

\* MoveMessages: the connection "just used for initial checks"
InitConnect ==
    /\ pc = "initConnect"
    /\ \E o \in ConnectOutcomes :
          /\ sessions' = ConnectToMailbox(sessions, R("init"), R("init"), folder, FALSE, o)
          /\ IF o = "ok"
             THEN /\ pc' = "EnsureFolder"
                  /\ folderName' = destFolder
                  /\ UNCHANGED result
             ELSE /\ MoveReturn(Wrap("failed to connect to server", ConnectToMailboxErr(o)))
                  /\ UNCHANGED folderName
    /\ UNCHANGED <<builder, tally, fetching, inputs, search, destFolder, batchSize, server, ensure, group, verifyIdx>>

\* -------------------------------------------------------------- EnsureFolder
\* variant: MoveMessages goes on whatever EnsureFolder returned
EnsureFailedNever(e) == FALSE

\* MoveMessages: if err := EnsureFolder(...); err != nil
EnsureFailed(e) == e # NoErr

\* EnsureFolder returns e; ss holds the commands issued so far.  Its own
\* deferred Logout runs, and MoveMessages either goes on or returns e with
\* the deferred Logout of its initial connection.
EnsureReturn(e, ss) ==
    LET out == Logout(ss, R("ensure"), R("ensure"))
    IN  IF entry = "Ensure"
        THEN sessions' = out /\ Done(e)
        ELSE IF EnsureFailed(e)
             THEN sessions' = Logout(out, R("init"), R("init")) /\ MoveReturn(e)
             ELSE sessions' = out /\ pc' = "batches" /\ UNCHANGED result

\* EnsureFolder: getImapClient
EnsureDial ==
    /\ pc = "EnsureFolder"
    /\ \E o \in ClientOutcomes :
          LET c == GetImapClient(sessions, R("ensure"), R("ensure"), o)
              e == Wrap("failed to init imap client", GetImapClientErr(o))
          IN  IF o = "ok"
              THEN sessions' = c /\ pc' = "ensureList" /\ UNCHANGED result
              ELSE IF entry = "Ensure"
                   THEN sessions' = c /\ Done(e)
                   ELSE sessions' = Logout(c, R("init"), R("init")) /\ MoveReturn(e)
    /\ UNCHANGED <<builder, tally, fetching, inputs, search, destFolder, batchSize, folderName, server,
                   ensure, group, verifyIdx>>

\* EnsureFolder: List("", folderName) for the full path
EnsureListFull ==
    /\ pc = "ensureList"
    /\ \E ok \in BOOLEAN :
          LET resp == ListExact(folders, folderName)
              exists == ListedExists(resp, folderName)
              c == Issue(sessions, R("ensure"), R("ensure"), "List", folderName, {},
                         ok, exists)
          IN  IF ~ok
              THEN EnsureReturn(Err("list error"), c) /\ UNCHANGED ensure
              ELSE IF exists
                   THEN EnsureReturn(NoErr, c) /\ UNCHANGED ensure
                   ELSE /\ sessions' = c
                        /\ segs' = Split(folderName)
                        /\ segIdx' = 1
                        /\ currentPath' = <<>>
                        /\ pc' = "ensureLoop"
                        /\ UNCHANGED result
    /\ UNCHANGED <<builder, tally, fetching, inputs, search, destFolder, batchSize, folderName, server, group, verifyIdx>>

\* EnsureFolder: the end of one loop iteration; the loop goes on with the
\* next segment or the function returns nil
EnsureNext(c) ==
    IF segIdx = Len(segs)
    THEN EnsureReturn(NoErr, c) /\ UNCHANGED segIdx
    ELSE sessions' = c /\ segIdx' = segIdx + 1 /\ pc' = "ensureLoop" /\ UNCHANGED result

\* EnsureFolder: one loop iteration up to the existence check of currentPath
EnsureListPrefix ==
    /\ pc = "ensureLoop"
    /\ \E ok \in BOOLEAN :
          LET path == (IF segIdx > 1 THEN currentPath \o <<Slash>> ELSE currentPath)
                          \o segs[segIdx]
              resp == ListExact(folders, path)
              exists == ListedExists(resp, path)
              c == Issue(sessions, R("ensure"), R("ensure"), "List", path, {}, ok, exists)
          IN  /\ currentPath' = path
              /\ IF ~ok
                 THEN EnsureReturn(Err("list error"), c) /\ UNCHANGED segIdx
                 ELSE IF NeedsCreate(exists)
                      THEN /\ sessions' = c
                           /\ pc' = "ensureCreate"
                           /\ UNCHANGED <<result, segIdx>>
                      ELSE EnsureNext(c)
    /\ UNCHANGED <<builder, tally, fetching, inputs, search, destFolder, batchSize, folderName, server, segs,
                   group, verifyIdx>>

\* variant: the error of Create is ignored
CreateFailureIgnored(ok) == FALSE

\* EnsureFolder: if err := imapClient.Create(currentPath); err != nil
CreateFailed(ok) == ~ok

\* EnsureFolder: Create(currentPath)
EnsureCreate ==
    /\ pc = "ensureCreate"
    /\ \E ok \in BOOLEAN :
          LET c == Issue(sessions, R("ensure"), R("ensure"), "Create", currentPath, {},
                         ok, FALSE)
          IN  /\ folders' = IF ok THEN folders \cup {currentPath} ELSE folders
              /\ IF CreateFailed(ok)
                 THEN EnsureReturn(Err("create error"), c) /\ UNCHANGED segIdx
                 ELSE EnsureNext(c)
    /\ UNCHANGED <<builder, tally, fetching, inputs, search, destFolder, batchSize, folderName, inSource, inDest,
                   flagged, segs, currentPath, group, verifyIdx>>

\* the caller invokes EnsureFolder again, with the same arguments, after a
\* call that returned nil; the new call dials a connection of its own
EnsureAgain ==
    /\ entry = "Ensure"
    /\ pc = "done"
    /\ result = NoErr
    /\ calls < MaxCalls
    /\ calls' = calls + 1
    /\ pc' = "EnsureFolder"
    /\ sessions' = [sessions EXCEPT ![R("ensure")] = NoSession]
    /\ segs' = <<>>
    /\ segIdx' = 0
    /\ currentPath' = <<>>
    /\ UNCHANGED <<entry, account, messages, folder, destFolder, batchSize,
                   folderName, server, result, group, verifyIdx, search, builder,
                   tally, fetching>>

\* --------------------------------------------------- MoveMessages: batches
\* MoveMessages: the batches are cut and one goroutine per batch is started
LaunchBatches ==
    /\ pc = "batches"
    /\ batches' = MakeBatches(messages, EffectiveBatchSize(batchSize))
    /\ bpc' = [i \in 1..Len(batches') |-> "start"]
    /\ pc' = "wait"
    /\ UNCHANGED <<builder, tally, fetching, inputs, search, destFolder, batchSize, folderName, server, sessions,
                   result, ensure, gErr, firstFailed, verifyIdx>>

\* variant: the batches share the connection of the initial checks
BatchClientShared(i) == R("init")

\* the client a batch goroutine issues its UID MOVE on
BatchClient(i) == B(i)

\* the goroutine of batch i returns e to the errgroup
BatchReturn(i, e) ==
    /\ bpc' = [bpc EXCEPT ![i] = "done"]
    /\ gErr' = GroupErr(gErr, InBatch(i, e))
    /\ firstFailed' = IF e # NoErr /\ firstFailed = 0 THEN i ELSE firstFailed

\* batch goroutine: connectToMailbox on a connection of its own
BatchConnect(i) ==
    /\ pc = "wait"
    /\ bpc[i] = "start"
    /\ \E o \in ConnectOutcomes :
          /\ sessions' = ConnectToMailbox(sessions, B(i), B(i), folder, FALSE, o)
          /\ IF o = "ok"
             THEN /\ bpc' = [bpc EXCEPT ![i] = "connected"]
                  /\ UNCHANGED <<gErr, firstFailed>>
             ELSE BatchReturn(i, Wrap("failed to connect to server for batch",
                                      ConnectToMailboxErr(o)))
    /\ UNCHANGED <<builder, tally, fetching, inputs, search, destFolder, batchSize, folderName, server, pc, result,
                   ensure, batches, verifyIdx>>

\* the server's reaction to UID MOVE: it moves the messages, reports success
\* without moving anything, or rejects the command
MoveOutcomes == {"ok", "noop", "err"}

\* batch goroutine: UidMove(seqSet, destFolder), then the deferred Logout
BatchMove(i) ==
    /\ pc = "wait"
    /\ bpc[i] = "connected"
    /\ \E o \in MoveOutcomes :
          LET uids == CreateSeqSet(batches[i])
              c == Issue(sessions, BatchClient(i), B(i), "UidMove", destFolder, uids,
                         o # "err", o = "ok")
          IN  /\ inSource' = IF o = "ok" THEN inSource \ uids ELSE inSource
              /\ inDest' = IF o = "ok" THEN inDest \cup (uids \cap inSource) ELSE inDest
              /\ sessions' = Logout(c, BatchClient(i), B(i))
              /\ BatchReturn(i, IF o = "err" THEN Wrap("failed to move batch", Err("move error"))
                                             ELSE NoErr)
    /\ UNCHANGED <<builder, tally, fetching, inputs, search, destFolder, batchSize, folderName, folders, flagged, pc,
                   result, ensure, batches, verifyIdx>>

\* variant: the messages already moved are put back
RolledBackAll(moved) == moved

\* MoveMessages: the messages, among those moved, that it puts back into the
\* source before it returns an error: none, the error is returned at once
RolledBack(moved) == {}

\* errgroup.Wait: returns when every goroutine has returned
WaitReady(b) == \A i \in DOMAIN b : b[i] = "done"

\* MoveMessages: g.Wait() and its error check
Wait ==
    /\ pc = "wait"
    /\ WaitReady(bpc)
    /\ IF gErr # NoErr
       THEN /\ sessions' = Logout(sessions, R("init"), R("init"))
            /\ MoveReturn(Wrap("error moving messages", gErr))
            /\ inSource' = inSource \cup RolledBack(inDest)
            /\ inDest' = inDest \ RolledBack(inDest)
       ELSE /\ pc' = "verifyConnect"
            /\ UNCHANGED <<sessions, result, inSource, inDest>>
    /\ UNCHANGED <<builder, tally, fetching, inputs, search, destFolder, batchSize, folderName, folders, flagged,
                   ensure, group, verifyIdx>>

\* ------------------------------------------------ MoveMessages: verification
\* MoveMessages returns e after the verification connection was opened: the
\* deferred Logouts run in reverse order
VerifyReturn(e, c) ==
    /\ sessions' = Logout(Logout(c, R("verify"), R("verify")), R("init"), R("init"))
    /\ MoveReturn(e)

\* MoveMessages: the fresh connection of the verification pass
VerifyConnect ==
    /\ pc = "verifyConnect"
    /\ \E o \in ConnectOutcomes :
          LET c == ConnectToMailbox(sessions, R("verify"), R("verify"), folder, FALSE, o)
          IN  IF o # "ok"
              THEN /\ sessions' = Logout(c, R("init"), R("init"))
                   /\ MoveReturn(Wrap("failed to connect for verification",
                                       ConnectToMailboxErr(o)))
                   /\ UNCHANGED verifyIdx
              ELSE IF Len(messages) = 0
                   THEN VerifyReturn(NoErr, c) /\ UNCHANGED verifyIdx
                   ELSE /\ sessions' = c
                        /\ verifyIdx' = 1
                        /\ pc' = "verify"
                        /\ UNCHANGED result
    /\ UNCHANGED <<builder, tally, fetching, inputs, search, destFolder, batchSize, folderName, server, ensure, group>>

\* MoveMessages: one iteration of the verification loop: UidFetch of one UID;
\* a fetch that fails may or may not have delivered the message before
VerifyFetch ==
    /\ pc = "verify"
    /\ \E ok \in BOOLEAN, partial \in BOOLEAN :
          LET seqSet == CreateSeqSet(<<messages[verifyIdx]>>)
              inFolder == seqSet \cap inSource # {}
              messageFound == inFolder /\ (ok \/ partial)
              c == Issue(sessions, R("verify"), R("verify"), "UidFetch", <<>>, seqSet,
                         ok, messageFound)
          IN  /\ (~inFolder \/ ok) => ~partial
              /\ IF VerifyHit(ok, messageFound)
                 THEN /\ VerifyReturn(Err("message UID still found in source folder after move"), c)
                      /\ inSource' = inSource \cup RolledBack(inDest)
                      /\ inDest' = inDest \ RolledBack(inDest)
                      /\ UNCHANGED verifyIdx
                 ELSE IF verifyIdx = Len(messages)
                      THEN VerifyReturn(NoErr, c) /\ UNCHANGED <<verifyIdx, inSource, inDest>>
                      ELSE /\ sessions' = c
                           /\ verifyIdx' = verifyIdx + 1
                           /\ UNCHANGED <<pc, result, inSource, inDest>>
    /\ UNCHANGED <<builder, tally, fetching, inputs, search, destFolder, batchSize, folderName, folders, flagged,
                   ensure, group>>

\* ------------------------------------------------------------ SearchMessages
\* SearchMessages returns e with the deferred Logout
SearchReturn(e, c) ==
    /\ sessions' = Logout(c, R("search"), R("search"))
    /\ Done(e)

\* SearchMessages: connectToMailbox, read-only
SearchMessages ==
    /\ pc = "SearchMessages"
    /\ \E o \in ConnectOutcomes :
          /\ sessions' = ConnectToMailbox(sessions, R("search"), R("search"), folder, TRUE, o)
          /\ IF o = "ok"
             THEN pc' = "logServerCapabilities" /\ UNCHANGED result
             ELSE Done(Wrap("failed to connect to mailbox", ConnectToMailboxErr(o)))
    /\ UNCHANGED <<builder, tally, fetching, inputs, search, destFolder, batchSize, folderName, server,
                   ensure, group, verifyIdx>>

\* variant: a Capability failure is only logged
CapabilityFailedNever(ok) == FALSE

\* SearchMessages: if err := logServerCapabilities(imapClient); err != nil
CapabilityFailed(ok) == ~ok

\* logServerCapabilities: Capability
LogServerCapabilities ==
    /\ pc = "logServerCapabilities"
    /\ \E ok \in BOOLEAN :
          LET c == Issue(sessions, R("search"), R("search"), "Capability", <<>>, {},
                         ok, FALSE)
          IN  IF ~CapabilityFailed(ok)
              THEN sessions' = c /\ pc' = "findMessageUIDs" /\ UNCHANGED result
              ELSE SearchReturn(Wrap("failed to log server capabilities",
                                  Wrap("failed to get capabilities", Err("capability error"))), c)
    /\ UNCHANGED <<builder, tally, fetching, inputs, search, destFolder, batchSize, folderName, server,
                   ensure, group, verifyIdx>>

\* variant: the search goes on to the fetch whatever it found
NoneFoundNever(uids) == FALSE

\* SearchMessages: len(uids) == 0
NoneFound(uids) == Cardinality(uids) = 0

\* findMessageUIDs: UidSearch(criteria); the server answers with the UIDs of
\* the messages of the folder that match; none found ends the search with
\* an empty slice
FindMessageUIDs ==
    /\ pc = "findMessageUIDs"
    /\ \E ok \in BOOLEAN, matched \in SUBSET inSource :
          LET c == Issue(sessions, R("search"), R("search"), "UidSearch", <<>>,
                         IF ok THEN matched ELSE {}, ok, ok /\ matched # {})
          IN  /\ ~ok => matched = {}
              /\ IF ~ok
                 THEN /\ SearchReturn(Wrap("failed to search messages", Err("search error")), c)
                      /\ UNCHANGED <<uidsFound, found>>
                 ELSE /\ uidsFound' = matched
                      /\ IF NoneFound(matched)
                         THEN /\ found' = EmptySlice
                              /\ SearchReturn(NoErr, c)
                         ELSE /\ sessions' = c /\ pc' = "fetchMessagesByUID"
                              /\ UNCHANGED <<result, found>>
    /\ UNCHANGED <<builder, tally, fetching, inputs, fetched, destFolder, batchSize, folderName, server,
                   ensure, group, verifyIdx>>

\* fetchMessagesByUID: one UidFetch of all the UIDs; the server sends the
\* messages it still has, in an order of its own, and they are appended to a
\* nil slice until the channel is closed; then sortMessagesByDate
FetchMessagesByUID ==
    /\ pc = "fetchMessagesByUID"
    /\ \E ok \in BOOLEAN, delivered \in SUBSET uidsFound :
          LET c == Issue(sessions, R("search"), R("search"), "UidFetch", <<>>, uidsFound,
                         ok, delivered # {})
          IN  /\ fetched' \in Orderings(delivered)
              /\ IF ok
                 THEN /\ found' \in { AppendAll(NilSlice, sorted) :
                                         sorted \in SortMessagesByDate(Range(fetched')) }
                      /\ SearchReturn(NoErr, c)
                 ELSE /\ found' = NilSlice
                      /\ SearchReturn(Wrap("failed to fetch messages", Err("fetch error")), c)
    /\ UNCHANGED <<builder, tally, fetching, inputs, uidsFound, destFolder, batchSize, folderName, server,
                   ensure, group, verifyIdx>>

\* ------------------------------------------------------------ specification
Next ==
    \/ DeleteMessages
    \/ PurgeConnect
    \/ PurgeStore
    \/ PurgeExpunge
    \/ ListFoldersDial
    \/ ListFoldersList
    \/ MoveMessages
    \/ GmailConnect
    \/ GmailCopy
    \/ GmailStore
    \/ GmailExpunge
    \/ InitConnect
    \/ EnsureDial
    \/ EnsureListFull
    \/ EnsureListPrefix
    \/ EnsureCreate
    \/ EnsureAgain
    \/ LaunchBatches
    \/ \E i \in DOMAIN bpc : BatchConnect(i)
    \/ \E i \in DOMAIN bpc : BatchMove(i)
    \/ Wait
    \/ VerifyConnect
    \/ VerifyFetch
    \/ SearchMessages
    \/ LogServerCapabilities
    \/ FindMessageUIDs
    \/ FetchMessagesByUID

Spec == Init /\ [][Next]_vars

\* ---------------------------------------------------------- criteria builders
\* the command layer builds the criteria of a search from its options: the
\* state of the mailbox operations plays no part
InitCriteria ==
    /\ InitCommon
    /\ InitNoTally
    /\ entry = "Criteria"
    /\ pc = "done"
    /\ account = [Server |-> GmailHost, Purge |-> FALSE]
    /\ messages = <<>>
    /\ destFolder = <<>>
    /\ batchSize = 0
    /\ folderName = <<>>
    /\ folders = {Inbox}
    /\ flagged = {}
    /\ opts \in SearchOptions
    /\ built = {}
    /\ andCriteria = ZeroCriteria
    /\ orCriteria = ZeroCriteria

mailbox == <<inputs, search, destFolder, batchSize, folderName, server, sessions,
             pc, result, ensure, group, verifyIdx>>

\* BuildSearchCriteria(opts)
BuildAnd ==
    /\ entry = "Criteria"
    /\ "and" \notin built
    /\ built' = built \cup {"and"}
    /\ andCriteria' = BuildSearchCriteria(opts)
    /\ UNCHANGED <<opts, orCriteria, mailbox, tally, fetching>>

\* BuildORSearchCriteria(opts): the range over the header map visits the
\* three fields in an order of its own
BuildOr ==
    /\ entry = "Criteria"
    /\ "or" \notin built
    /\ built' = built \cup {"or"}
    /\ \E order \in Orderings(HeaderFields) :
          orCriteria' = BuildORSearchCriteria(opts, order)
    /\ UNCHANGED <<opts, andCriteria, mailbox, tally, fetching>>

NextCriteria == BuildAnd \/ BuildOr

SpecCriteria == InitCriteria /\ [][NextCriteria]_vars

\* ------------------------------------------------------ CountMessagesBySender
NumWorkers == 4
SortThreshold == 1000
Workers == 1..NumWorkers

\* a string is the sequence of its pieces, the empty string the empty sequence
\* imap.Address: MailboxName and HostName
AddrA == [MailboxName |-> <<"a">>, HostName |-> <<"x.com">>]
AddrB == [MailboxName |-> <<"b">>, HostName |-> <<"x.com">>]
AddrNoHost == [MailboxName |-> <<"a">>, HostName |-> <<>>]

\* Envelope.From of a message: no address, one, two, one without host
FromLists == {<<>>, <<AddrA>>, <<AddrB, AddrA>>, <<AddrNoHost>>}
FolderContents == UNION { [1..n -> FromLists] : n \in 0..MaxTally }
Thresholds == {0, 2}

\* FormatAddress: fmt.Sprintf("%s@%s", mailbox, host), both left empty unless
\* both are set
FormatAddress(a) ==
    IF a.MailboxName # <<>> /\ a.HostName # <<>>
    THEN a.MailboxName \o <<"@">> \o a.HostName
    ELSE <<"@">>

\* strconv.Itoa of a number that is not negative
Digits == <<"0", "1", "2", "3", "4", "5", "6", "7", "8", "9">>
RECURSIVE Itoa(_)
Itoa(n) == IF n < 10 THEN <<Digits[n + 1]>> ELSE Itoa(n \div 10) \o <<Digits[(n % 10) + 1]>>

\* senderCounts[sender], zero for a sender the map does not hold
Tally(m, sender) == IF sender \in DOMAIN m THEN m[sender] ELSE 0
\* senderCounts[sender] = n
SetTally(m, sender, n) ==
    [x \in DOMAIN m \cup {sender} |-> IF x = sender THEN n ELSE m[x]]

\* variant: the map is updated without the mutex
MutexAlwaysFree(m) == TRUE

\* mu.Lock() returns when no worker holds the mutex
MutexFree(m) == m = 0

\* variant: an entry is kept when its count is above the threshold
RetainedAbove(count, t) == count > t

\* CountMessagesBySender: count >= threshold
Retained(count, t) == count >= t

\* variant: the halves are joined, the left one first
MergeJoined(left, right) == left \o right

\* parallelSort: the merge of two sorted halves
RECURSIVE Merge(_, _)
Merge(left, right) ==
    IF left = <<>> THEN right
    ELSE IF right = <<>> THEN left
    ELSE IF Head(left).MessageCount > Head(right).MessageCount
         THEN <<Head(left)>> \o Merge(Tail(left), right)
         ELSE <<Head(right)>> \o Merge(left, Tail(right))

\* parallelSort: the two halves are sorted by two goroutines, each on its own
\* half of the slice, and merged when both are done
RECURSIVE ParallelSort(_)
ParallelSort(data) ==
    IF Len(data) <= 1 THEN data
    ELSE LET mid == Len(data) \div 2
         IN  Merge(ParallelSort(SubSeq(data, 1, mid)),
                   ParallelSort(SubSeq(data, mid + 1, Len(data))))

\* variant: the smallest count comes first
SortSliceAscending(data) ==
    { [i \in DOMAIN data |-> data[p[i]]] : p \in
        { q \in Orderings(DOMAIN data) :
            \A i, j \in DOMAIN data :
                i < j => ~(data[q[j]].MessageCount < data[q[i]].MessageCount) } }

\* sort.Slice with MessageCount > as "less": the sort is not stable, entries
\* of equal count may come out in either order
SortSlice(data) ==
    { [i \in DOMAIN data |-> data[p[i]]] : p \in
        { q \in Orderings(DOMAIN data) :
            \A i, j \in DOMAIN data :
                i < j => ~(data[q[j]].MessageCount > data[q[i]].MessageCount) } }

\* CountMessagesBySender: the sort chosen by the length of the list
SortedLists(data) ==
    IF Len(data) > SortThreshold THEN {ParallelSort(data)} ELSE SortSlice(data)

HeaderRow == << <<"Sender">>, <<"Number of Messages">> >>

\* CountMessagesBySender: the header row, then a row per entry
TableOf(list) ==
    <<HeaderRow>> \o [i \in DOMAIN list |-> <<list[i].Sender, Itoa(list[i].MessageCount)>>]

InitSenders ==
    /\ InitCommon
    /\ InitNoBuilder
    /\ entry = "Senders"
    /\ pc = "CountMessagesBySender"
    /\ account = [Server |-> GmailHost, Purge |-> FALSE]
    /\ messages = <<>>
    /\ destFolder = <<>>
    /\ batchSize = 0
    /\ folderName = <<>>
    /\ folders = {Inbox}
    /\ flagged = {}
    /\ folderMessages \in FolderContents
    /\ threshold \in Thresholds
    /\ senderCountList = <<>>

mailboxRest == <<inputs, search, destFolder, batchSize, folderName, server, sessions,
                 ensure, group, verifyIdx>>

\* CountMessagesBySender: FetchMessages fails, or returns the messages of the
\* folder; then the workers are started
CountMessagesBySender ==
    /\ pc = "CountMessagesBySender"
    /\ \E ok \in BOOLEAN :
          IF ok
          THEN /\ workers' = [w \in Workers |-> [pc |-> "recv", sender |-> <<>>, count |-> 0]]
               /\ takenBy' = [i \in 1..Len(folderMessages) |-> {}]
               /\ pc' = "send"
               /\ UNCHANGED result
          ELSE /\ Done(Wrap("error fetching messages from folder", Err("fetch error")))
               /\ UNCHANGED <<workers, takenBy>>
    /\ UNCHANGED <<folderMessages, threshold, messageChan, sendIdx, closed, mu,
                   senderCounts, senderCountList, sortedList, sortedBy, tableData,
                   builder, fetching, mailboxRest>>

\* messageChan <- msg: the channel holds numWorkers messages at most
Send ==
    /\ pc = "send"
    /\ sendIdx < Len(folderMessages)
    /\ Len(messageChan) < NumWorkers
    /\ messageChan' = Append(messageChan, sendIdx + 1)
    /\ sendIdx' = sendIdx + 1
    /\ UNCHANGED <<folderMessages, threshold, closed, workers, mu, senderCounts, takenBy,
                   senderCountList, sortedList, sortedBy, tableData, pc, result,
                   builder, fetching, mailboxRest>>

\* close(messageChan), when every message has been sent
Close ==
    /\ pc = "send"
    /\ sendIdx = Len(folderMessages)
    /\ closed' = TRUE
    /\ pc' = "wait"
    /\ UNCHANGED <<folderMessages, threshold, messageChan, sendIdx, workers, mu,
                   senderCounts, takenBy, senderCountList, sortedList, sortedBy,
                   tableData, result, builder, fetching, mailboxRest>>

\* variant: the loop of a worker ends as soon as the channel is empty
RangeEndsOnEmpty(ch, cl) == ch = <<>>

\* for msg := range messageChan ends when the channel is closed and empty
RangeEnds(ch, cl) == ch = <<>> /\ cl

\* the workers run the same code and differ in nothing but their number: of
\* the workers blocked on the channel, the one of the lowest number is taken
\* to be the one that is woken
FirstWaiting(w) ==
    /\ w \in DOMAIN workers
    /\ workers[w].pc = "recv"
    /\ \A v \in 1..(w - 1) : workers[v].pc # "recv"

\* a worker receives a message: without a From address it goes on to the
\* next one, else it formats the first address
WorkerRecv(w) ==
    /\ FirstWaiting(w)
    /\ pc \in {"send", "wait"}
    /\ messageChan # <<>>
    /\ LET i == Head(messageChan)
           from == folderMessages[i]
           sender == IF Len(from) = 0 THEN <<>> ELSE FormatAddress(from[1])
       IN  /\ messageChan' = Tail(messageChan)
           /\ takenBy' = [takenBy EXCEPT ![i] = @ \cup {w}]
           /\ workers' = IF Len(from) # 0 /\ sender # <<>>
                         THEN [workers EXCEPT ![w].pc = "lock", ![w].sender = sender]
                         ELSE workers
    /\ UNCHANGED <<folderMessages, threshold, sendIdx, closed, mu, senderCounts,
                   senderCountList, sortedList, sortedBy, tableData, pc, result,
                   builder, fetching, mailboxRest>>

\* the channel is closed and empty: the worker's loop ends, wg.Done()
WorkerExit(w) ==
    /\ FirstWaiting(w)
    /\ pc \in {"send", "wait"}
    /\ RangeEnds(messageChan, closed)
    /\ workers' = [workers EXCEPT ![w].pc = "done"]
    /\ UNCHANGED <<folderMessages, threshold, messageChan, sendIdx, closed, mu,
                   senderCounts, takenBy, senderCountList, sortedList, sortedBy,
                   tableData, pc, result, builder, fetching, mailboxRest>>

\* mu.Lock(), and the read of senderCounts[sender]++
WorkerLock(w) ==
    /\ w \in DOMAIN workers
    /\ workers[w].pc = "lock"
    /\ MutexFree(mu)
    /\ mu' = w
    /\ workers' = [workers EXCEPT ![w].pc = "incr",
                                  ![w].count = Tally(senderCounts, workers[w].sender)]
    /\ UNCHANGED <<folderMessages, threshold, messageChan, sendIdx, closed,
                   senderCounts, takenBy, senderCountList, sortedList, sortedBy,
                   tableData, pc, result, builder, fetching, mailboxRest>>

\* the write of senderCounts[sender]++, and mu.Unlock()
WorkerIncr(w) ==
    /\ w \in DOMAIN workers
    /\ workers[w].pc = "incr"
    /\ senderCounts' = SetTally(senderCounts, workers[w].sender, workers[w].count + 1)
    /\ mu' = 0
    /\ workers' = [workers EXCEPT ![w].pc = "recv", ![w].sender = <<>>, ![w].count = 0]
    /\ UNCHANGED <<folderMessages, threshold, messageChan, sendIdx, closed, takenBy,
                   senderCountList, sortedList, sortedBy, tableData, pc, result,
                   builder, fetching, mailboxRest>>

\* wg.Wait() returns; the entries at or above the threshold are taken from
\* the map in the order of its iteration, sorted, and put in the table
Tabulate ==
    /\ pc = "wait"
    /\ \A w \in Workers : workers[w].pc = "done"
    /\ \E list \in Orderings({ x \in DOMAIN senderCounts :
                                  Retained(senderCounts[x], threshold) }) :
          /\ senderCountList' =
                [i \in DOMAIN list |-> [Sender |-> list[i], MessageCount |-> senderCounts[list[i]]]]
          /\ sortedList' \in SortedLists(senderCountList')
    /\ sortedBy' = IF Len(senderCountList') > SortThreshold THEN "parallelSort" ELSE "sort.Slice"
    /\ tableData' = TableOf(sortedList')
    /\ Done(NoErr)
    /\ UNCHANGED <<folderMessages, threshold, messageChan, sendIdx, closed, workers, mu,
                   senderCounts, takenBy, builder, fetching, mailboxRest>>

NextSenders ==
    \/ CountMessagesBySender
    \/ Send
    \/ Close
    \/ \E w \in Workers : WorkerRecv(w)
    \/ \E w \in Workers : WorkerExit(w)
    \/ \E w \in Workers : WorkerLock(w)
    \/ \E w \in Workers : WorkerIncr(w)
    \/ Tabulate

SpecSenders == InitSenders /\ [][NextSenders]_vars

\* the worker pool on folders of up to MaxPool messages, more than the
\* channel holds: a message has no From address, or one
PoolFromLists == {<<>>, <<AddrA>>}
PoolContents == UNION { [1..n -> PoolFromLists] : n \in 0..MaxPool }

InitPool ==
    /\ InitCommon
    /\ InitNoBuilder
    /\ entry = "Senders"
    /\ pc = "CountMessagesBySender"
    /\ account = [Server |-> GmailHost, Purge |-> FALSE]
    /\ messages = <<>>
    /\ destFolder = <<>>
    /\ batchSize = 0
    /\ folderName = <<>>
    /\ folders = {Inbox}
    /\ flagged = {}
    /\ folderMessages \in PoolContents
    /\ threshold \in Thresholds
    /\ senderCountList = <<>>

\* a goroutine that can run is run: the producer, a worker that can receive,
\* lock, count or leave, the caller when the wait is over
SpecPool == InitPool /\ [][NextSenders]_vars /\ WF_vars(NextSenders)

\* ----------------------------------------------------- the sorts of senders
\* the lists handed to the sorts: the entries of a map, so no sender twice,
\* every count at least 1, in the order of the map's iteration
SenderName(i) == <<"s">> \o Itoa(i) \o <<"@", "x.com">>
SenderCountLists ==
    UNION { { [i \in 1..n |-> [Sender |-> SenderName(i), MessageCount |-> c[i]]] :
                c \in [1..n -> 1..MaxTally] } : n \in 0..MaxList }

InitSort ==
    /\ InitCommon
    /\ InitNoBuilder
    /\ entry = "Sort"
    /\ pc = "sort"
    /\ account = [Server |-> GmailHost, Purge |-> FALSE]
    /\ messages = <<>>
    /\ destFolder = <<>>
    /\ batchSize = 0
    /\ folderName = <<>>
    /\ folders = {Inbox}
    /\ flagged = {}
    /\ folderMessages = <<>>
    /\ threshold = 0
    /\ senderCountList \in SenderCountLists

\* parallelSort(senderCountList)
SortParallel ==
    /\ entry = "Sort"
    /\ pc = "sort"
    /\ sortedList' = ParallelSort(senderCountList)
    /\ sortedBy' = "parallelSort"
    /\ pc' = "done"
    /\ UNCHANGED <<folderMessages, threshold, messageChan, sendIdx, closed, workers, mu,
                   senderCounts, takenBy, senderCountList, tableData, result,
                   builder, fetching, mailboxRest>>

\* sort.Slice(senderCountList, ...)
SortInProcess ==
    /\ entry = "Sort"
    /\ pc = "sort"
    /\ sortedList' \in SortSlice(senderCountList)
    /\ sortedBy' = "sort.Slice"
    /\ pc' = "done"
    /\ UNCHANGED <<folderMessages, threshold, messageChan, sendIdx, closed, workers, mu,
                   senderCounts, takenBy, senderCountList, tableData, result,
                   builder, fetching, mailboxRest>>

NextSort == SortParallel \/ SortInProcess

SpecSort == InitSort /\ [][NextSort]_vars

\* -------------------------------------------------------------- FetchMessages
InitFetch ==
    /\ InitCommon
    /\ InitNoBuilder
    /\ InitNoTally
    /\ entry = "Fetch"
    /\ pc = "FetchMessages"
    /\ account \in [Server : Servers, Purge : {FALSE}]
    /\ messages = <<>>
    /\ destFolder = <<>>
    /\ batchSize = 0
    /\ folderName = <<>>
    /\ folders = {Inbox}
    /\ flagged = {}

fetchRest == <<inputs, search, destFolder, batchSize, folderName, server, ensure, group,
               verifyIdx, builder, tally>>

\* FetchMessages returns the slice s and the error e, with the deferred Logout
FetchReturn(s, e, c) ==
    /\ returned' = s
    /\ sessions' = Logout(c, R("fetch"), R("fetch"))
    /\ Done(e)

\* FetchMessages: getImapClient
FetchMessages ==
    /\ pc = "FetchMessages"
    /\ \E o \in ClientOutcomes :
          /\ sessions' = GetImapClient(sessions, R("fetch"), R("fetch"), o)
          /\ IF o = "ok"
             THEN pc' = "fetchSelect" /\ UNCHANGED result
             ELSE Done(Wrap("error getting imap client", GetImapClientErr(o)))
    /\ UNCHANGED <<fetching, fetchRest>>

\* FetchMessages: Select(mailbox, true); an empty mailbox ends the call, else
\* the slice is made and the loop starts at 1
FetchSelect ==
    /\ pc = "fetchSelect"
    /\ \E ok \in BOOLEAN, n \in MailboxSizes :
          LET c == [sessions EXCEPT ![R("fetch")].cmds =
                      Append(@, [cmd |-> "Select", by |-> R("fetch"), name |-> folder,
                                 uids |-> {}, ok |-> ok, hit |-> FALSE, readOnly |-> TRUE])]
          IN  IF ~ok
              THEN /\ n = Zero
                   /\ FetchReturn(NilSlice, Wrap("failed to select mailbox", Err("select error")), c)
                   /\ UNCHANGED <<mboxMessages, loopI, fetchedMessages>>
              ELSE /\ mboxMessages' = n
                   /\ IF n = Zero
                      THEN /\ FetchReturn(EmptySlice, NoErr, c)
                           /\ UNCHANGED <<loopI, fetchedMessages>>
                      ELSE /\ sessions' = [c EXCEPT ![R("fetch")].state = "selected"]
                           /\ fetchedMessages' = EmptySlice
                           /\ loopI' = One
                           /\ pc' = "fetchLoop"
                           /\ UNCHANGED <<result, returned>>
    /\ UNCHANGED <<fetchCmds, fetchRest>>

\* the Fetch commands issued one by one
SingleFetches == { j \in 1..Len(fetchCmds) : fetchCmds[j].n = 1 }

\* FetchMessages: one turn of the loop.  The batch from i is fetched; the
\* messages of the range are appended as they arrive; a Fetch that fails
\* ends the call; then i += batchSize, and the loop ends when i is above
\* mbox.Messages
FetchBatch ==
    /\ pc = "fetchLoop"
    /\ Cardinality(SingleFetches) < MaxFetches
    /\ LET end == BatchEndOf(loopI, mboxMessages)
           seqset == AddRange(loopI, end)
           next == Plus(loopI, FetchBatchSize)
       IN  \E ok \in BOOLEAN :
             /\ fetchCmds' = Append(fetchCmds, [from |-> seqset.from, to |-> seqset.to,
                                                  n |-> 1, ok |-> ok])
             /\ IF ~ok
                THEN /\ FetchReturn(NilSlice,
                                    Wrap("failed to fetch messages batch", Err("fetch error")),
                                    sessions)
                     /\ UNCHANGED <<loopI, fetchedMessages>>
                ELSE /\ fetchedMessages' = AppendAll(fetchedMessages, <<seqset>>)
                     /\ loopI' = next
                     /\ IF Le(next, mboxMessages)
                        THEN UNCHANGED <<pc, result, sessions, returned>>
                        ELSE FetchReturn(fetchedMessages', NoErr, sessions)
    /\ UNCHANGED <<mboxMessages, fetchRest>>

\* FetchMessages: the turns of the loop that lie before the last thousand of
\* a mailbox of more than MaxFetches batches, taken together: each fetches a
\* full batch below mbox.Messages, and each Fetch succeeds
FetchFullBatches ==
    /\ pc = "fetchLoop"
    /\ mboxMessages.k - loopI.k > MaxFetches
    /\ LET turns == mboxMessages.k - 1 - loopI.k
           last == Num(loopI.k + turns, 0)
       IN  /\ fetchCmds' = Append(fetchCmds, [from |-> loopI, to |-> last,
                                                n |-> turns, ok |-> TRUE])
           /\ fetchedMessages' = AppendAll(fetchedMessages, <<[from |-> loopI, to |-> last]>>)
           /\ loopI' = Num(loopI.k + turns, loopI.u)
    /\ UNCHANGED <<mboxMessages, returned, pc, result, sessions, fetchRest>>

NextFetch == FetchMessages \/ FetchSelect \/ FetchBatch \/ FetchFullBatches

SpecFetch == InitFetch /\ [][NextFetch]_vars

\* --------------------------------------------------------------- ListFolders
\* ListFolders called by the command layer: any listing, the empty one included
InitList ==
    /\ InitCommon
    /\ InitNoBuilder
    /\ InitNoTally
    /\ entry = "List"
    /\ pc = "ListFolders"
    /\ account \in [Server : Servers, Purge : {FALSE}]
    /\ messages = <<>>
    /\ destFolder = <<>>
    /\ batchSize = 0
    /\ folderName = <<>>
    /\ folders \in { t \in SUBSET ({Inbox} \cup TrashNames) : Cardinality(t) <= MaxFolders + 1 }
    /\ flagged = {}

NextList == ListFoldersDial \/ ListFoldersList

SpecList == InitList /\ [][NextList]_vars

\* =============================================================== properties
Cmds(k) == sessions[k].cmds
Issued(k, c) == { i \in 1..Len(Cmds(k)) : Cmds(k)[i].cmd = c }
AllIssued(c) == UNION { { <<k, i>> : i \in Issued(k, c) } : k \in Roles }
CountCmd(c) == Cardinality(AllIssued(c))
Opened(k) == sessions[k].state # "none"
Mentions(e, msg) == \E n \in 1..Len(e.ctx) : e.ctx[n] = msg
Selected(k) == \E i \in Issued(k, "Select") : Cmds(k)[i].ok

\* MoveMessages has been called (directly, or by moveToTrash)
MoveCalled == entry # "Ensure" /\ destFolder # <<>> /\ pc # "MoveMessages"
\* ... with the arguments that select moveToGmailTrash
GmailCase == Contains(account.Server, GmailHost) /\ destFolder = GmailTrash
\* the batch goroutines have been started
Launched == MoveCalled /\ ~GmailCase /\ (pc \in {"wait", "verifyConnect", "verify"}
                \/ (pc = "done" /\ Opened(R("ensure")) /\ Opened(R("init"))
                      /\ \A i \in 1..Len(Cmds(R("ensure"))) : Cmds(R("ensure"))[i].ok))
\* the UID MOVE issued by the goroutine of batch i, as <<session, index>>
MovesBy(i) == { m \in AllIssued("UidMove") : Cmds(m[1])[m[2]].by = B(i) }
EveryMoveOk ==
    \A i \in DOMAIN bpc : \E m \in MovesBy(i) : Cmds(m[1])[m[2]].ok
VerifyFetches == Issued(R("verify"), "UidFetch")
FetchesOf(u) == { i \in VerifyFetches : Cmds(R("verify"))[i].uids = {u} }

\* C1: when every batch's UID MOVE reported success and the verification
\* UID FETCH of some original UID returned a message, MoveMessages returns an
\* error; it returns success only when no original UID was found.
C1_VerificationHitIsError ==
    (pc = "done" /\ Launched /\ EveryMoveOk
        /\ \E i \in VerifyFetches : Cmds(R("verify"))[i].hit)
      => result # NoErr

\* C3: findTrashFolder returns the earliest entry of the priority list
\* DeletedFolderNames that the mailbox has, whatever the listing order.
FirstPresent(names, fs) ==
    LET present == { i \in 1..Len(names) : names[i] \in fs }
    IN  IF present = {} THEN <<>>
        ELSE names[CHOOSE i \in present : \A j \in present : i <= j]

C3_TrashByPriority ==
    (entry = "Delete" /\ destFolder # <<>>
        /\ FirstPresent(DeletedFolderNames, folders) # <<>>)
      => destFolder = FirstPresent(DeletedFolderNames, folders)

\* ---------------------------------------------------------------------- C2
CeilDiv(n, b) == (n + b - 1) \div b
GivenBatchSize == IF batchSize <= 0 THEN DefaultBatchSize ELSE batchSize

RECURSIVE Concat(_)
Concat(ss) == IF ss = <<>> THEN <<>> ELSE Head(ss) \o Concat(Tail(ss))

\* the batches are ceil(n/b) contiguous slices of the input, all but the last
\* of exactly b messages, the last of at most b
BatchesPartition ==
    /\ Len(batches) = CeilDiv(Len(messages), GivenBatchSize)
    /\ Concat(batches) = messages
    /\ \A i \in 1..Len(batches) :
          /\ Len(batches[i]) >= 1
          /\ Len(batches[i]) <= GivenBatchSize
          /\ i < Len(batches) => Len(batches[i]) = GivenBatchSize

\* the verification fetches, in the order in which they were issued
VerifySeq == SelectSeq(Cmds(R("verify")), LAMBDA c : c.cmd = "UidFetch")

\* C2 as stated (every session taken to connect): ceil(n/b) UID MOVE, one per
\* batch of a contiguous partition, and, when all moves succeed, exactly one
\* verification UID FETCH per original UID.
C2_OneFetchPerUid ==
    (pc = "done" /\ Launched /\ (\A i \in DOMAIN bpc : Selected(B(i))))
      => /\ BatchesPartition
         /\ CountCmd("UidMove") = CeilDiv(Len(messages), GivenBatchSize)
         /\ (EveryMoveOk /\ Selected(R("verify")))
               => \A u \in Range(messages) : Cardinality(FetchesOf(u)) = 1

\* C2 (amended): once the batches are cut they are ceil(n/b) contiguous
\* slices of the input; a batch goroutine issues exactly one UID MOVE, for
\* the UIDs of its batch, when its session connects, and none otherwise, and
\* nobody else issues a UID MOVE; verification fetches are issued only after
\* every move reported success, one UID at a time in input order, and the
\* loop ends with the first UID whose fetch succeeds and returns the message,
\* or with the last UID.
C2_BatchesThenVerification ==
    Launched =>
      /\ BatchesPartition
      /\ DOMAIN bpc = 1..Len(batches)
      /\ \A i \in DOMAIN bpc :
            /\ Cardinality(MovesBy(i)) =
                  (IF bpc[i] = "done" /\ Selected(B(i)) THEN 1 ELSE 0)
            /\ \A m \in MovesBy(i) :
                  /\ Cmds(m[1])[m[2]].uids = Range(batches[i])
                  /\ Cmds(m[1])[m[2]].name = destFolder
      /\ CountCmd("UidMove") = Cardinality({ i \in DOMAIN bpc : MovesBy(i) # {} })
      /\ VerifySeq # <<>> => (WaitReady(bpc) /\ EveryMoveOk)
      /\ Len(VerifySeq) <= Len(messages)
      /\ \A k \in 1..Len(VerifySeq) :
            /\ VerifySeq[k].uids = {messages[k]}
            /\ k < Len(VerifySeq) => ~(VerifySeq[k].ok /\ VerifySeq[k].hit)
      /\ (pc = "done" /\ Selected(R("verify")) /\ messages # <<>>)
            => /\ VerifySeq # <<>>
               /\ \/ Len(VerifySeq) = Len(messages)
                  \/ (VerifySeq[Len(VerifySeq)].ok /\ VerifySeq[Len(VerifySeq)].hit)

C2_Witness ==
    /\ pc = "done" /\ Launched /\ result = NoErr
    /\ Len(messages) = 3 /\ batchSize = 2
    /\ Len(batches) = 2 /\ Len(batches[1]) = 2 /\ Len(batches[2]) = 1
    /\ CountCmd("UidMove") = 2
    /\ Len(VerifySeq) = 3

\* ---------------------------------------------------------------------- C4
Kinds(k) == [i \in 1..Len(Cmds(k)) |-> Cmds(k)[i].cmd]

\* C4: no session of MoveMessages is shared: every command on a session is
\* issued by the call that dialed it, and a batch goroutine that connects
\* logs in, selects the source folder, issues its UID MOVE and logs out on
\* the session it opened itself.
C4_SessionsNotShared ==
    /\ \A k \in Roles :
          /\ Opened(k) => sessions[k].opener = k
          /\ \A i \in 1..Len(Cmds(k)) : Cmds(k)[i].by = sessions[k].opener
    /\ \A i \in DOMAIN bpc :
          (bpc[i] = "done" /\ Selected(B(i)))
            => /\ Kinds(B(i)) = <<"Login", "Select", "UidMove", "Logout">>
               /\ Cmds(B(i))[2].name = folder

C4_Witness ==
    \E i, j \in DOMAIN bpc :
        /\ i # j
        /\ sessions[B(i)].state = "selected"
        /\ sessions[B(j)].state = "loggedout"
        /\ Kinds(B(j)) = <<"Login", "Select", "UidMove", "Logout">>
        /\ sessions[R("init")].state = "selected"
        /\ sessions[R("ensure")].state = "loggedout"

\* ---------------------------------------------------------------------- C5
\* the goroutine of batch i has returned an error
BatchFailed(i) ==
    /\ bpc[i] = "done"
    /\ ~Selected(B(i)) \/ \E m \in MovesBy(i) : ~Cmds(m[1])[m[2]].ok

\* C5: when batches fail no sibling is cancelled; MoveMessages returns only
\* after every batch goroutine has finished (each connected one having
\* issued its UID MOVE), the error returned wraps the error of the batch
\* that failed first, and the verification pass is not run.
C5_FirstErrorOnly ==
    /\ (Launched /\ pc # "wait") => WaitReady(bpc)
    /\ (Launched /\ pc = "done" /\ firstFailed # 0) =>
          /\ \A i \in DOMAIN bpc : Selected(B(i)) => MovesBy(i) # {}
          /\ result.origin = firstFailed
          /\ \E n \in 1..Len(result.ctx) :
                /\ result.ctx[n] = "error moving messages"
                /\ result.ctx[n + 1] =
                      (IF Selected(B(firstFailed)) THEN "failed to move batch"
                       ELSE "failed to connect to server for batch")
          /\ ~Opened(R("verify"))
          /\ VerifySeq = <<>>

\* the batch that failed first could not connect, a sibling still issued its
\* UID MOVE afterwards and failed too, and the first error is the one returned
C5_Witness ==
    /\ pc = "done" /\ Launched /\ firstFailed # 0
    /\ ~Selected(B(firstFailed))
    /\ \E j \in DOMAIN bpc :
          /\ j # firstFailed /\ BatchFailed(j)
          /\ \E m \in MovesBy(j) : ~Cmds(m[1])[m[2]].ok
    /\ result.origin = firstFailed
    /\ Mentions(result, "failed to connect to server for batch")

\* ---------------------------------------------------------------------- C6
\* the commands of session k between its Select and its Logout
Steps(k) ==
    LET cs == Cmds(k)
        n == Len(cs)
    IN  IF n >= 3 /\ cs[n].cmd = "Logout" THEN SubSeq(cs, 3, n - 1) ELSE SubSeq(cs, 3, n)

LoggedOutLast(k) == Len(Cmds(k)) >= 1 /\ Cmds(k)[Len(Cmds(k))].cmd = "Logout"

GmailSteps == <<"UidCopy", "UidStore", "Expunge">>
GmailErrors == <<"failed to copy messages to trash",
                 "failed to flag messages as deleted",
                 "failed to expunge messages">>

\* C6: on its session, selected on the source folder, moveToGmailTrash issues
\* UID COPY to "[Gmail]/Trash", UID STORE on the same UIDs, EXPUNGE, in this
\* order and each at most once; a failed step is the last one and its
\* wrapped error is returned; the session is logged out exactly once, when
\* the function returns.
C6_GmailSequence ==
    Selected(R("gmail")) =>
      LET G == R("gmail")
          steps == Steps(G)
      IN  /\ Cmds(G)[2].name = folder
          /\ Len(steps) <= 3
          /\ \A k \in 1..Len(steps) :
                /\ steps[k].cmd = GmailSteps[k]
                /\ k < Len(steps) => steps[k].ok
                /\ k = 1 => steps[k].name = GmailTrash
                /\ k <= 2 => steps[k].uids = Range(messages)
          /\ Issued(G, "Logout") \subseteq {Len(Cmds(G))}
          /\ sessions[G].logouts = (IF pc = "done" THEN 1 ELSE 0)
          /\ LoggedOutLast(G) <=> pc = "done"
          /\ pc = "done" =>
                /\ Len(steps) >= 1
                /\ IF steps[Len(steps)].ok
                   THEN Len(steps) = 3 /\ result = NoErr
                   ELSE Mentions(result, GmailErrors[Len(steps)])

C6_Witness ==
    /\ pc = "done"
    /\ Kinds(R("gmail")) = <<"Login", "Select", "UidCopy", "UidStore", "Logout">>
    /\ Cmds(R("gmail"))[3].ok
    /\ ~Cmds(R("gmail"))[4].ok
    /\ Mentions(result, "failed to flag messages as deleted")

\* ---------------------------------------------------------------------- C7
MoveRoles == Roles \ {R("list"), R("purge"), R("search")}
CountOn(ks, c) == Cardinality({ m \in AllIssued(c) : m[1] \in ks })

\* C7: MoveMessages hands over to moveToGmailTrash exactly when the server
\* name contains "gmail.com" and the destination is "[Gmail]/Trash": then it
\* opens a single session and issues no List, Create, UID MOVE or UID FETCH;
\* otherwise it takes the batch path and issues no UID COPY, UID STORE or
\* EXPUNGE.
C7_GmailDelegation ==
    MoveCalled =>
      IF GmailCase
      THEN /\ \A k \in MoveRoles \ {R("gmail")} : ~Opened(k)
           /\ \A c \in {"List", "Create", "UidMove", "UidFetch"} : CountOn(MoveRoles, c) = 0
           /\ (pc = "done" /\ result = NoErr)
                 => Kinds(R("gmail")) =
                      <<"Login", "Select", "UidCopy", "UidStore", "Expunge", "Logout">>
      ELSE /\ ~Opened(R("gmail"))
           /\ \A c \in {"UidCopy", "UidStore", "Expunge"} : CountOn(MoveRoles, c) = 0
           /\ (pc = "done" /\ result = NoErr)
                 => /\ Selected(R("init")) /\ Opened(R("ensure")) /\ Selected(R("verify"))
                    /\ CountCmd("UidMove") = Len(batches)

C7_Witness ==
    /\ MoveCalled /\ GmailCase /\ pc = "done" /\ result = NoErr
    /\ messages # <<>>
    /\ Cardinality({ k \in Roles : Opened(k) }) = 1
    /\ Kinds(R("gmail")) = <<"Login", "Select", "UidCopy", "UidStore", "Expunge", "Logout">>

\* ---------------------------------------------------------------------- C8
PurgeCase == entry = "Delete" /\ account.Purge /\ Len(messages) > 0
PurgeSteps == <<"UidStore", "Expunge">>

\* C8: DeleteMessages with purge=true and a non-empty list opens one session
\* on the folder and issues one UID STORE of the input UIDs followed by one
\* EXPUNGE; no List, Create, UID MOVE or UID COPY is issued; EXPUNGE is not
\* issued when the UID STORE fails.
C8_PurgeSequence ==
    PurgeCase =>
      LET P == R("purge")
          steps == Steps(P)
      IN  /\ \A k \in Roles \ {P} : ~Opened(k)
          /\ \A c \in {"List", "Create", "UidMove", "UidCopy", "UidFetch"} : CountCmd(c) = 0
          /\ ~Selected(P) => (CountCmd("UidStore") = 0 /\ CountCmd("Expunge") = 0)
          /\ Selected(P) =>
                /\ Cmds(P)[2].name = folder
                /\ Len(steps) <= 2
                /\ \A k \in 1..Len(steps) :
                      /\ steps[k].cmd = PurgeSteps[k]
                      /\ k < Len(steps) => steps[k].ok
                /\ Len(steps) >= 1 => steps[1].uids = Range(messages)
                /\ pc = "done" =>
                      /\ Len(steps) >= 1
                      /\ steps[1].ok => Len(steps) = 2
                      /\ (result = NoErr) <=> (Len(steps) = 2 /\ steps[2].ok)

C8_Witness ==
    /\ PurgeCase /\ pc = "done" /\ result = NoErr
    /\ Kinds(R("purge")) = <<"Login", "Select", "UidStore", "Expunge", "Logout">>
    /\ Cardinality({ k \in Roles : Opened(k) }) = 1

\* ---------------------------------------------------------------------- C9
EmptyDelete == entry = "Delete" /\ Len(messages) = 0

\* C9: DeleteMessages with an empty list returns success without dialing a
\* session or issuing a command, under both purge policies, and leaves the
\* mailbox as it was.
C9_EmptyDeleteIsNoOp ==
    /\ [](EmptyDelete =>
            /\ \A k \in Roles : ~Opened(k) /\ Cmds(k) = <<>>
            /\ pc \in {"DeleteMessages", "done"}
            /\ result = NoErr)
    /\ [][EmptyDelete => UNCHANGED <<folders, inSource, inDest, flagged>>]_vars

C9_Witness ==
    /\ EmptyDelete /\ account.Purge /\ pc = "done" /\ result = NoErr
    /\ \A k \in Roles : ~Opened(k)

\* --------------------------------------------------------------------- C10
RECURSIVE JoinSegs(_, _)
JoinSegs(ss, t) ==
    IF t = 1 THEN ss[1] ELSE JoinSegs(ss, t - 1) \o <<Slash>> \o ss[t]

\* the indices of the List commands issued by the loop of EnsureFolder
LoopLists == { j \in Issued(R("ensure"), "List") : j >= 3 }

\* C10: when the full path is missing, EnsureFolder checks the '/'-prefixes
\* of the path in order of increasing length; a Create is issued only for a
\* prefix whose List just reported it missing, and only after every shorter
\* prefix was listed and found or created; so Create("Parent") precedes
\* Create("Parent/Child") and an existing prefix is never created.
C10_ParentFirst ==
    LET E == R("ensure")
        cs == Cmds(E)
        path == Split(folderName)
    IN  /\ pc = "ensureCreate" => currentPath \notin folders
        /\ \A j \in 1..Len(cs) :
              /\ (cs[j].cmd \in {"List", "Create"} /\ j >= 3)
                    => (cs[2].cmd = "List" /\ cs[2].name = folderName
                          /\ cs[2].ok /\ ~cs[2].hit)
              /\ (j \in LoopLists) =>
                    LET t == Cardinality({ i \in LoopLists : i <= j })
                    IN  /\ t <= Len(path)
                        /\ cs[j].name = JoinSegs(path, t)
                        /\ t > 1 =>
                              /\ cs[j - 1].name = JoinSegs(path, t - 1)
                              /\ cs[j - 1].ok
                              /\ \/ cs[j - 1].cmd = "List" /\ cs[j - 1].hit
                                 \/ cs[j - 1].cmd = "Create"
              /\ cs[j].cmd = "Create" =>
                    /\ cs[j - 1].cmd = "List"
                    /\ cs[j - 1].name = cs[j].name
                    /\ cs[j - 1].ok /\ ~cs[j - 1].hit
                    /\ \A i \in 1..(j - 1) :
                          cs[i].cmd = "Create" => Len(cs[i].name) < Len(cs[j].name)

C10_Witness ==
    /\ folderName = <<"Parent", "/", "Child">>
    /\ pc = "done" /\ result = NoErr
    /\ Kinds(R("ensure")) =
          <<"Login", "List", "List", "Create", "List", "Create", "Logout">>
    /\ Cmds(R("ensure"))[4].name = <<"Parent">>
    /\ Cmds(R("ensure"))[6].name = <<"Parent", "/", "Child">>

\* --------------------------------------------------------------------- C11
\* the error at the bottom of the wrapping chain of e
RootCause(e) == IF e.ctx = <<>> THEN "" ELSE e.ctx[Len(e.ctx)]

\* C11: a Create that fails ends EnsureFolder at once: it is the last command
\* of the session before the Logout, the same path is not created a second
\* time, no List or Create of a longer prefix follows, the prefixes created
\* before it still exist, the caller of EnsureFolder, MoveMessages or
\* DeleteMessages gets the Create error, and no batch session is opened and
\* no UID MOVE is issued.
C11_CreateFailureIsFatal ==
    LET E == R("ensure")
        cs == Cmds(E)
    IN  \A j \in Issued(E, "Create") :
          /\ cs[j].ok => cs[j].name \in folders
          /\ \A i \in Issued(E, "Create") : i # j => cs[i].name # cs[j].name
          /\ ~cs[j].ok =>
                /\ pc = "done"
                /\ Len(cs) = j + 1 /\ cs[j + 1].cmd = "Logout"
                /\ RootCause(result) = "create error"
                /\ entry = "Ensure" => result = Err("create error")
                /\ entry = "Move" => result = Err("create error")
                /\ entry = "Delete" =>
                      result = Wrap("failed to delete messages",
                                 Wrap("failed to move messages", Err("create error")))
                /\ CountCmd("UidMove") = 0
                /\ batches = <<>>
                /\ \A k \in Roles \ {R("list"), R("init"), E} : ~Opened(k)

\* "[Gmail]" was created, then the Create of "[Gmail]/Trash" failed
C11_Witness ==
    /\ entry = "Move" /\ pc = "done"
    /\ Kinds(R("ensure")) =
          <<"Login", "List", "List", "Create", "List", "Create", "Logout">>
    /\ Cmds(R("ensure"))[4].ok /\ ~Cmds(R("ensure"))[6].ok
    /\ <<"[Gmail]">> \in folders /\ GmailTrash \notin folders
    /\ result = Err("create error")

\* --------------------------------------------------------------------- C12
\* EnsureFolder is about to list a full path that exists
EnsureOfExisting == pc = "ensureList" /\ folderName \in folders

\* C12: when the full path exists, EnsureFolder issues one List of that path
\* and its Logout, no Create, changes nothing on the server and, if the List
\* succeeds, returns nil; a call that returned nil leaves the full path in
\* existence, so a second call on the same path changes nothing either.
C12_ExistingPathIsNoOp ==
    /\ [][EnsureOfExisting =>
            LET cs == sessions'[R("ensure")].cmds
            IN  /\ [i \in 1..Len(cs) |-> cs[i].cmd] = <<"Login", "List", "Logout">>
                /\ cs[2].name = folderName
                /\ UNCHANGED <<folders, inSource, inDest, flagged>>
                /\ IF cs[2].ok
                   THEN /\ result' = NoErr
                        /\ pc' = (IF entry = "Ensure" THEN "done" ELSE "batches")
                   ELSE pc' = "done" /\ RootCause(result') = "list error"]_vars
    /\ []((entry = "Ensure" /\ pc = "done" /\ result = NoErr) => folderName \in folders)
    /\ [][calls > 1 => UNCHANGED <<folders, inSource, inDest, flagged>>]_vars
    /\ [](calls > 1 =>
            /\ folderName \in folders
            /\ Issued(R("ensure"), "Create") = {}
            /\ Cardinality(Issued(R("ensure"), "List")) <= 1
            /\ pc \in {"EnsureFolder", "ensureList", "done"})

\* the first call created the folder and its parent, the second call only
\* listed the full path
C12_Witness ==
    /\ entry = "Ensure" /\ calls = 2 /\ pc = "done" /\ result = NoErr
    /\ folderName = <<"Parent", "/", "Child">>
    /\ Kinds(R("ensure")) = <<"Login", "List", "Logout">>
    /\ Cmds(R("ensure"))[2].name = folderName

\* --------------------------------------------------------------------- C13
TrashCase == entry = "Delete" /\ ~account.Purge /\ Len(messages) > 0

\* the folders EnsureFolder has created, and those that existed before
Created ==
    { Cmds(R("ensure"))[j].name :
        j \in { i \in Issued(R("ensure"), "Create") : Cmds(R("ensure"))[i].ok } }
ListedFolders == folders \ Created

\* the folder listing of findTrashFolder succeeded
ListingOk == \E i \in Issued(R("list"), "List") : Cmds(R("list"))[i].ok

\* C13: in DeleteMessages with purge=false, the listing session only lists;
\* when the mailbox has none of the well-known trash names the destination is
\* "Deleted Items", every Create and UID MOVE names it, a UID MOVE is issued
\* only after EnsureFolder created it, and a successful return has issued
\* the UID MOVE of all input UIDs; when the listing fails DeleteMessages
\* returns the listing error and opens no other session.
C13_FallbackTrash ==
    TrashCase =>
      /\ \A i \in 1..Len(Cmds(R("list"))) :
            Cmds(R("list"))[i].cmd \in {"Login", "List", "Logout"}
      /\ (ListingOk /\ ListedFolders \cap TrashNames = {}) =>
            /\ destFolder = <<"Deleted Items">>
            /\ \A m \in AllIssued("Create") : Cmds(m[1])[m[2]].name = <<"Deleted Items">>
            /\ \A m \in AllIssued("UidMove") :
                  /\ Cmds(m[1])[m[2]].name = <<"Deleted Items">>
                  /\ Cmds(m[1])[m[2]].uids = Range(messages)
                  /\ Created = {<<"Deleted Items">>}
            /\ (pc = "done" /\ result = NoErr) =>
                  \E m \in AllIssued("UidMove") : Cmds(m[1])[m[2]].ok
      /\ ~ListingOk =>
            /\ destFolder = <<>>
            /\ \A k \in Roles \ {R("list")} : ~Opened(k)
            /\ CountCmd("UidMove") = 0
            /\ pc = "done" =>
                  /\ Mentions(result, "failed to find trash folder")
                  /\ result.ctx[1] = "failed to delete messages"

C13_Witness ==
    /\ TrashCase /\ pc = "done" /\ result = NoErr
    /\ ListedFolders = {Inbox}
    /\ Kinds(R("list")) = <<"Login", "List", "Logout">>
    /\ Kinds(R("ensure")) = <<"Login", "List", "List", "Create", "Logout">>
    /\ Cmds(R("ensure"))[4].name = <<"Deleted Items">>
    /\ Range(messages) \subseteq inDest
    /\ \E m \in AllIssued("UidMove") : Cmds(m[1])[m[2]].name = <<"Deleted Items">>

\* --------------------------------------------------------------------- C14
\* C14 as stated: when a command issued on a session of MoveMessages returned
\* an error, MoveMessages returns an error (the errors of the failed batches
\* other than the first are dropped, yet the first one is returned); this
\* includes the error of a verification UID FETCH.
C14_NoErrorSwallowed ==
    (MoveCalled /\ pc = "done"
        /\ \E k \in MoveRoles : \E i \in 1..Len(Cmds(k)) : ~Cmds(k)[i].ok)
      => result # NoErr

\* --------------------------------------------------------------------- C15
\* C15: MoveMessages never compensates.  A message that reached the
\* destination stays there and never comes back into the source; every UID
\* MOVE goes from the source folder to the destination and no session is
\* opened on the destination; in every state, that of an error return
\* included, the messages of a UID MOVE the server carried out are in the
\* destination and absent from the source.
C15_NoCompensation ==
    /\ [][inDest \subseteq inDest' /\ inSource' \subseteq inSource]_vars
    /\ [](MoveCalled =>
            /\ \A m \in AllIssued("Select") : Cmds(m[1])[m[2]].name = folder
            /\ \A m \in AllIssued("UidMove") :
                  LET c == Cmds(m[1])[m[2]]
                  IN  /\ c.name = destFolder
                      /\ c.name # folder
                      /\ c.hit => (c.uids \subseteq inDest /\ c.uids \cap inSource = {}))

\* one batch failed, the messages of another one stay moved
C15_Witness ==
    /\ pc = "done" /\ Launched /\ firstFailed # 0 /\ result # NoErr
    /\ \E j \in DOMAIN bpc :
          /\ j # firstFailed
          /\ \E m \in MovesBy(j) : Cmds(m[1])[m[2]].hit
          /\ Range(batches[j]) \subseteq inDest
          /\ Range(batches[j]) \cap inSource = {}

\* --------------------------------------------------------------------- C16
GmailRun == MoveCalled /\ GmailCase /\ Selected(R("gmail"))

\* the outcome of step k of moveToGmailTrash: "none" while not issued
GmailStep(k) ==
    IF Len(Steps(R("gmail"))) < k THEN "none"
    ELSE IF Steps(R("gmail"))[k].ok THEN "ok" ELSE "failed"

\* C16: in moveToGmailTrash no input message is ever absent from both the
\* source and "[Gmail]/Trash".  A failed UID COPY ends the operation with an
\* error and the mailbox as it was; a UID STORE that fails after the copy
\* ends it with an error and every input message in both folders, not
\* flagged; a failed EXPUNGE ends it with an error and every input message
\* copied, flagged \Deleted and still in the source.
C16_GmailPartialFailure ==
    LET msgs == Range(messages)
    IN  /\ (MoveCalled /\ GmailCase) => \A u \in msgs : u \in inSource \/ u \in inDest
        /\ (GmailRun /\ GmailStep(1) = "failed") =>
              /\ pc = "done" /\ result # NoErr
              /\ inDest = {}
              /\ inSource = Uids \cup {OtherUid}
              /\ flagged \cap msgs = {}
              /\ GmailStep(2) = "none"
        /\ (GmailRun /\ GmailStep(1) = "ok") => msgs \subseteq inDest
        /\ (GmailRun /\ GmailStep(2) = "failed") =>
              /\ pc = "done" /\ result # NoErr
              /\ msgs \subseteq inSource /\ msgs \subseteq inDest
              /\ flagged \cap msgs = {}
              /\ GmailStep(3) = "none"
        /\ (GmailRun /\ GmailStep(3) = "failed") =>
              /\ pc = "done" /\ result # NoErr
              /\ msgs \subseteq inSource /\ msgs \subseteq inDest
              /\ msgs \subseteq flagged

\* the copy succeeded, the store failed: the messages are in both folders
C16_Witness ==
    /\ GmailRun /\ pc = "done" /\ result # NoErr
    /\ Len(messages) >= 2
    /\ GmailStep(1) = "ok" /\ GmailStep(2) = "failed"
    /\ Range(messages) \subseteq inSource \cap inDest

\* --------------------------------------------------------------------- C17
\* the number of commands c issued on session k
Times(k, c) == Cardinality(Issued(k, c))

\* C17: nothing is retried.  In every state of DeleteMessages, MoveMessages,
\* EnsureFolder, ListFolders and SearchMessages each call dials at most once
\* and logs in and selects at most once, each batch goroutine issues at most
\* one UID MOVE, EnsureFolder issues at most one Create per path, a UID is
\* fetched at most once, and UID COPY, UID STORE, EXPUNGE, UID SEARCH,
\* Capability and List("*") are issued at most once; a command that failed is
\* the last one of its session but for the Logout.
C17_NoRetry ==
    /\ \A k \in Roles :
          /\ sessions[k].dials <= 1
          /\ sessions[k].logouts <= 1
          /\ \A c \in {"Login", "Select", "UidMove", "UidCopy", "UidStore", "Expunge",
                        "UidSearch", "Capability"} : Times(k, c) <= 1
          /\ \A i, j \in Issued(k, "Create") : i # j => Cmds(k)[i].name # Cmds(k)[j].name
          /\ \A i, j \in Issued(k, "UidFetch") : i # j => Cmds(k)[i].uids # Cmds(k)[j].uids
          /\ \A i \in 1..Len(Cmds(k)) :
                (~Cmds(k)[i].ok /\ Cmds(k)[i].cmd # "UidFetch")
                  => \A j \in (i + 1)..Len(Cmds(k)) : Cmds(k)[j].cmd = "Logout"
    /\ \A i \in DOMAIN bpc : Cardinality(MovesBy(i)) <= 1
    /\ \A c \in {"UidCopy", "UidStore", "Expunge", "UidSearch", "Capability"} :
          CountCmd(c) <= 1
    /\ Times(R("list"), "List") <= 1

\* a dial failed, a login failed, a UID MOVE failed: none was attempted again
C17_Witness ==
    /\ pc = "done" /\ Launched
    /\ \E i, j \in DOMAIN bpc :
          /\ i # j
          /\ sessions[B(i)].dials = 1 /\ sessions[B(i)].state = "none"
          /\ Kinds(B(j)) = <<"Login", "Select", "UidMove", "Logout">>
          /\ ~Cmds(B(j))[3].ok

\* --------------------------------------------------------------------- C18
\* the UIDs of the batches whose UID MOVE the server has carried out
MovedBatches ==
    UNION { Range(batches[i]) :
              i \in { j \in DOMAIN bpc : \E m \in MovesBy(j) : Cmds(m[1])[m[2]].hit } }

\* C18: the set passed to a batch's UID MOVE is the set of the UIDs of the
\* messages of that batch, the sets passed to UID COPY and UID STORE are the
\* UIDs of the input messages, the k-th verification UID FETCH names the UID
\* of the k-th input message; whatever the order in which the batches move
\* (and so expunge) their messages, the messages gone from the source are
\* those of the batches moved and no other, and they are in the destination.
C18_AddressedByUid ==
    /\ \A i \in DOMAIN bpc : \A m \in MovesBy(i) :
          Cmds(m[1])[m[2]].uids = Range(batches[i])
    /\ \A c \in {"UidCopy", "UidStore"} : \A m \in AllIssued(c) :
          Cmds(m[1])[m[2]].uids = Range(messages)
    /\ \A k \in 1..Len(VerifySeq) : VerifySeq[k].uids = {messages[k]}
    /\ Launched =>
          /\ inSource = (Uids \cup {OtherUid}) \ MovedBatches
          /\ inDest = MovedBatches

\* the second batch moved its messages before the first one did, while the
\* first was connected
C18_Witness ==
    /\ Launched /\ Len(batches) = 2
    /\ bpc[1] = "connected" /\ bpc[2] = "done"
    /\ \E m \in MovesBy(2) : Cmds(m[1])[m[2]].hit
    /\ inSource = (Uids \cup {OtherUid}) \ Range(batches[2])
    /\ Range(batches[1]) \subseteq inSource

\* ================================================= criteria builder claims
\* the number of fields of o that are set: a header or a date that is
\* present, Seen or Unseen that is present and true
FieldsSet(o) ==
    Cardinality({ f \in HeaderFields \cup {"StartDate", "EndDate"} : o[f] # <<>> })
      + (IF o.Seen = <<TRUE>> THEN 1 ELSE 0) + (IF o.Unseen = <<TRUE>> THEN 1 ELSE 0)

\* the search expression a criteria without Or stands for: a header map that
\* is nil and one that is made and empty ask for the same (no) headers
Expression(c) == [c EXCEPT !.Header = @.entries]

BothBuilt == built = {"and", "or"}

\* C19: when exactly one field of the options is set, BuildORSearchCriteria
\* returns a criteria without Or, and it is the same search expression as the
\* one BuildSearchCriteria returns for these options.
C19_SingleFieldSameLeaf ==
    (BothBuilt /\ FieldsSet(opts) = 1)
      => /\ orCriteria.Or = <<>>
         /\ andCriteria.Or = <<>>
         /\ Expression(orCriteria) = Expression(andCriteria)
         /\ Expression(orCriteria) # Expression(ZeroCriteria)

\* only the end date is set: both builders give Before = SentBefore = the
\* day after, one with a nil header map, the other with an empty one
C19_Witness ==
    /\ BothBuilt /\ FieldsSet(opts) = 1
    /\ opts.EndDate = <<Date(2024, 2, 29)>>
    /\ orCriteria.Before = Date(2024, 3, 1) /\ orCriteria.SentBefore = Date(2024, 3, 1)
    /\ orCriteria.Since = 0
    /\ orCriteria.Header = NilMap /\ andCriteria.Header = MakeMap
    /\ orCriteria.Or = <<>>

\* --------------------------------------------------------------------- C20
\* c is a chain of n criteria nested to the right: a node carries one Or
\* pair and nothing else, its first child has no Or, its second child is the
\* rest of the chain
RECURSIVE RightChain(_, _)
RightChain(c, n) ==
    IF n = 1 THEN c.Or = <<>>
    ELSE /\ Len(c.Or) = 1
         /\ [c EXCEPT !.Or = <<>>] = ZeroCriteria
         /\ c.Or[1][1].Or = <<>>
         /\ RightChain(c.Or[1][2], n - 1)

RECURSIVE ChainLeaves(_)
ChainLeaves(c) ==
    IF c.Or = <<>> THEN <<c>> ELSE <<c.Or[1][1]>> \o ChainLeaves(c.Or[1][2])

LeafGroups(o) ==
    { {f} : f \in { h \in HeaderFields : o[h] # <<>> } }
      \cup ({ { d \in {"StartDate", "EndDate"} : o[d] # <<>> } } \ {{}})
      \cup { {f} : f \in { g \in {"Seen", "Unseen"} : o[g] = <<TRUE>> } }

\* the options o with only the fields of F kept
Only(o, F) == [f \in DOMAIN o |-> IF f \in F THEN o[f] ELSE <<>>]

\* the place of a leaf in the list: headers, then dates, then Seen, Unseen
LeafRank(c) ==
    CASE c.Header.entries # {} -> 1
      [] c.WithFlags # <<>> -> 3
      [] c.WithoutFlags # <<>> -> 4
      [] OTHER -> 2

NextCalendarDay(c) ==
    IF c.day < DaysIn(c.year, c.month) THEN [c EXCEPT !.day = @ + 1]
    ELSE IF c.month < 12 THEN [year |-> c.year, month |-> c.month + 1, day |-> 1]
    ELSE [year |-> c.year + 1, month |-> 1, day |-> 1]

AndBuilt == "and" \in built

\* C21: BuildSearchCriteria sets Since = SentSince = the start date, and
\* Before = SentBefore = the calendar day after the end date, also when the
\* end date is the last day of a month or of a year; the bounds of a date
\* that is absent stay unset (the zero time).
C21_EndDateInclusive ==
    AndBuilt =>
      /\ andCriteria.Since = andCriteria.SentSince
      /\ andCriteria.Before = andCriteria.SentBefore
      /\ IF opts.StartDate = <<>> THEN andCriteria.Since = 0
         ELSE andCriteria.Since = opts.StartDate[1]
      /\ IF opts.EndDate = <<>> THEN andCriteria.Before = 0
         ELSE /\ andCriteria.Before # 0
              /\ Civil(andCriteria.Before) = NextCalendarDay(Civil(opts.EndDate[1]))

\* the test's case: 2024-01-01 to 2024-01-31 gives a bound of 2024-02-01
C21_Witness ==
    /\ AndBuilt
    /\ opts.StartDate = <<Date(2024, 1, 1)>>
    /\ opts.EndDate = <<Date(2024, 1, 31)>>
    /\ Civil(andCriteria.Before) = [year |-> 2024, month |-> 2, day |-> 1]
    /\ andCriteria.SentBefore = andCriteria.Before
    /\ andCriteria.SentSince = Date(2024, 1, 1)

\* --------------------------------------------------------------------- C22
\* the messages a folder may hold, as a search sees them: the three headers
\* (the value asked for or another), the day the server received the
\* message, the day of its Date header, its flags
OtherValue == "other"
MessageDays == Dates \cup { d + 1 : d \in Dates }
Messages ==
    [To : {HeaderValues.To, OtherValue}, From : {HeaderValues.From, OtherValue},
     Subject : {HeaderValues.Subject, OtherValue},
     Internal : MessageDays, Sent : MessageDays, Flags : SUBSET {SeenFlag}]

\* SEARCH (RFC 3501, 6.4.4): a message satisfies a criteria when it satisfies
\* every key of it: each flag of WithFlags is set, none of WithoutFlags is,
\* each header asked for holds the value, the internal date is on or after
\* Since and before Before, the Date header on or after SentSince and
\* before SentBefore, and of every Or pair one side is satisfied
RECURSIVE Satisfies(_, _)
Satisfies(m, c) ==
    /\ \A i \in 1..Len(c.WithFlags) : c.WithFlags[i] \in m.Flags
    /\ \A i \in 1..Len(c.WithoutFlags) : c.WithoutFlags[i] \notin m.Flags
    /\ \A e \in c.Header.entries : \A i \in 1..Len(e[2]) : m[e[1]] = e[2][i]
    /\ c.Since # 0 => m.Internal >= c.Since
    /\ c.Before # 0 => m.Internal < c.Before
    /\ c.SentSince # 0 => m.Sent >= c.SentSince
    /\ c.SentBefore # 0 => m.Sent < c.SentBefore
    /\ \A i \in 1..Len(c.Or) : Satisfies(m, c.Or[i][1]) \/ Satisfies(m, c.Or[i][2])

\* C22: in the result of BuildSearchCriteria the Seen flag is required
\* exactly when Seen is present and true, and excluded exactly when Unseen is
\* present and true, each whatever the other is; a field that is nil or false
\* adds nothing; with both true a criteria is still returned, and no message
\* satisfies it (the messages are tried when BuildSearchCriteria has returned).
C22_SeenUnseenIndependent ==
    /\ AndBuilt =>
          /\ andCriteria.WithFlags = IF opts.Seen = <<TRUE>> THEN <<SeenFlag>> ELSE <<>>
          /\ andCriteria.WithoutFlags = IF opts.Unseen = <<TRUE>> THEN <<SeenFlag>> ELSE <<>>
    /\ built = {"and"} =>
          CASE opts.Seen = <<TRUE>> /\ opts.Unseen = <<TRUE>> ->
                 \A m \in Messages : ~Satisfies(m, andCriteria)
            [] opts.Seen = <<TRUE>> ->
                 \A m \in Messages : Satisfies(m, andCriteria) => SeenFlag \in m.Flags
            [] opts.Unseen = <<TRUE>> ->
                 \A m \in Messages : Satisfies(m, andCriteria) => SeenFlag \notin m.Flags
            [] OTHER -> TRUE

\* both are asked for and nothing else: the criteria requires and excludes
\* the Seen flag, while dropping either requirement leaves messages that match
C22_Witness ==
    /\ AndBuilt
    /\ opts = [NoOptions EXCEPT !.Seen = <<TRUE>>, !.Unseen = <<TRUE>>]
    /\ andCriteria.WithFlags = <<SeenFlag>>
    /\ andCriteria.WithoutFlags = <<SeenFlag>>
    /\ \E m \in Messages : Satisfies(m, [andCriteria EXCEPT !.WithoutFlags = <<>>])
    /\ \E m \in Messages : Satisfies(m, [andCriteria EXCEPT !.WithFlags = <<>>])

\* --------------------------------------------------------------------- C23
OrBuilt == "or" \in built

\* C23: when no option gives a leaf (every field nil, or Seen and Unseen
\* present but false) BuildORSearchCriteria returns the empty criteria, which
\* every message satisfies; when the options give exactly one leaf it returns
\* that leaf itself, with no Or around it.
C23_EmptyOrMatchesAll ==
    LET groups == LeafGroups(opts)
    IN  OrBuilt =>
          /\ groups = {} =>
                /\ orCriteria = ZeroCriteria
                /\ \A m \in Messages : Satisfies(m, orCriteria)
          /\ Cardinality(groups) = 1 =>
                /\ orCriteria.Or = <<>>
                /\ \A F \in groups :
                      Expression(orCriteria) = Expression(BuildSearchCriteria(Only(opts, F)))
                /\ Expression(orCriteria) # Expression(ZeroCriteria)

\* Seen and Unseen are both present and false, nothing else is: the empty
\* criteria, satisfied by read and unread messages alike
C23_Witness ==
    /\ OrBuilt
    /\ opts = [NoOptions EXCEPT !.Seen = <<FALSE>>, !.Unseen = <<FALSE>>]
    /\ orCriteria = ZeroCriteria
    /\ \E m \in Messages : SeenFlag \in m.Flags /\ Satisfies(m, orCriteria)
    /\ \E m \in Messages : SeenFlag \notin m.Flags /\ Satisfies(m, orCriteria)

\* ===================================================== SearchMessages claims
SearchDone == entry = "Search" /\ pc = "done"
SearchCmds == Cmds(R("search"))

\* the UID SEARCH succeeded and returned no UID
SearchedNone ==
    \E i \in Issued(R("search"), "UidSearch") : SearchCmds[i].ok /\ SearchCmds[i].uids = {}

\* C24: when the UID SEARCH returns no UID, SearchMessages returns an empty
\* slice that is not nil and no error, no UID FETCH is issued, and the
\* session is logged out (once, as its last command).
C24_NoFetchWhenNothingFound ==
    (SearchDone /\ SearchedNone)
      => /\ found = EmptySlice
         /\ found # NilSlice
         /\ result = NoErr
         /\ CountCmd("UidFetch") = 0 /\ CountCmd("Fetch") = 0
         /\ sessions[R("search")].logouts = 1
         /\ LoggedOutLast(R("search"))
         /\ Kinds(R("search")) = <<"Login", "Select", "Capability", "UidSearch", "Logout">>

\* the folder holds messages, the search matched none of them
C24_Witness ==
    /\ SearchDone /\ SearchedNone
    /\ inSource # {}
    /\ found = EmptySlice
    /\ sessions[R("search")].state = "loggedout"

\* --------------------------------------------------------------------- C25
\* the UID SEARCH succeeded and returned at least one UID
SearchedSome ==
    \E i \in Issued(R("search"), "UidSearch") : SearchCmds[i].ok /\ SearchCmds[i].uids # {}

\* s2 holds the elements of s1, each as many times
IsPermutation(s1, s2) ==
    /\ Len(s1) = Len(s2)
    /\ \A x \in Range(s1) \cup Range(s2) :
          Cardinality({ i \in DOMAIN s1 : s1[i] = x }) = Cardinality({ i \in DOMAIN s2 : s2[i] = x })

\* C25: when the UID SEARCH returns at least one UID, SearchMessages issues
\* exactly one UID FETCH, for exactly the UIDs the search returned; when that
\* fetch succeeds the slice returned holds the messages received on the
\* channel, each once and no other, and no message in it is followed by one
\* with a later internal date.
C25_OneFetchSortedByDate ==
    (SearchDone /\ SearchedSome)
      => /\ CountCmd("UidFetch") = 1
         /\ Times(R("search"), "UidFetch") = 1
         /\ \A i \in Issued(R("search"), "UidFetch") :
               /\ \E j \in Issued(R("search"), "UidSearch") :
                     j < i /\ SearchCmds[i].uids = SearchCmds[j].uids
               /\ SearchCmds[i].ok =>
                     /\ result = NoErr
                     /\ IsPermutation(fetched, found.elems)
                     /\ \A a, b \in 1..Len(found.elems) :
                           a < b => InternalDate(found.elems[a]) >= InternalDate(found.elems[b])

\* three messages came in ascending order of date, two of them of the same
\* date: they are returned latest first
C25_Witness ==
    /\ SearchDone /\ SearchedSome
    /\ result = NoErr
    /\ Len(fetched) = 3
    /\ \A a \in 1..2 : InternalDate(fetched[a]) <= InternalDate(fetched[a + 1])
    /\ InternalDate(fetched[1]) < InternalDate(fetched[3])
    /\ found.elems # fetched
    /\ InternalDate(found.elems[1]) > InternalDate(found.elems[3])

\* ============================================== CountMessagesBySender claims
SendersDone == entry = "Senders" /\ pc = "done" /\ result = NoErr

\* the messages of the folder that have a From address
WithSender == { i \in 1..Len(folderMessages) : folderMessages[i] # <<>> }

\* the sender of message i: its first From address, formatted
SenderOf(i) == FormatAddress(folderMessages[i][1])

\* the number of messages of the folder whose sender is x
MessagesFrom(x) == Cardinality({ i \in WithSender : SenderOf(i) = x })

\* the senders that have as many messages as the threshold asks for
KeptSenders == { x \in { SenderOf(i) : i \in WithSender } : MessagesFrom(x) >= threshold }

RECURSIVE SumOf(_, _)
SumOf(f, D) ==
    IF D = {} THEN 0
    ELSE LET x == CHOOSE y \in D : TRUE IN f[x] + SumOf(f, D \ {x})

\* every worker has left its loop
Drained ==
    /\ entry = "Senders"
    /\ workers # <<>>
    /\ \A w \in Workers : workers[w].pc = "done"

\* C27: when the workers have drained the channel, every message has been
\* received by exactly one worker, the tallies add up to the number of
\* messages that have a From address, and every sender's tally is the number
\* of its messages: no update of the map was lost, in any interleaving.
C27_NoLostUpdate ==
    Drained =>
      /\ \A i \in 1..Len(folderMessages) : Cardinality(takenBy[i]) = 1
      /\ SumOf(senderCounts, DOMAIN senderCounts) = Cardinality(WithSender)
      /\ \A x \in DOMAIN senderCounts : senderCounts[x] = MessagesFrom(x)

\* three messages of one sender were received by three different workers
C27_Witness ==
    /\ Drained
    /\ Len(folderMessages) = 3
    /\ \A i, j \in 1..3 : i # j => takenBy[i] # takenBy[j]
    /\ DOMAIN senderCounts = {<<"a", "@", "x.com">>}
    /\ senderCounts[<<"a", "@", "x.com">>] = 3

\* --------------------------------------------------------------------- C28
\* the entries of the list are in descending order of count
Descending(list) ==
    \A i \in 1..(Len(list) - 1) : list[i].MessageCount >= list[i + 1].MessageCount

\* C28: whichever sort is run, parallelSort or sort.Slice, the list it
\* leaves holds the entries of the list it was given, each once, and no
\* entry is followed by one with a larger count.
C28_BothSortsDescending ==
    (entry = "Sort" /\ sortedBy # "none")
      => /\ IsPermutation(senderCountList, sortedList)
         /\ Descending(sortedList)

\* parallelSort was given four entries that were not in order, two of them
\* of the same count
C28_Witness ==
    /\ entry = "Sort" /\ sortedBy = "parallelSort"
    /\ Len(senderCountList) = 4
    /\ ~Descending(senderCountList)
    /\ senderCountList[1].MessageCount < senderCountList[4].MessageCount
    /\ \E i, j \in 1..4 : i # j /\ senderCountList[i].MessageCount = senderCountList[j].MessageCount
    /\ sortedList # senderCountList
    /\ Descending(sortedList)

\* --------------------------------------------------------------------- C29
FetchCalled == entry = "Fetch"

\* the number of Fetch commands in the first j entries of fetchCmds
RECURSIVE Fetches(_)
Fetches(j) == IF j = 0 THEN 0 ELSE Fetches(j - 1) + fetchCmds[j].n

\* ceil(n / 1000)
CeilBatches(n) == n.k + (IF n.u > 0 THEN 1 ELSE 0)

\* the entry j of fetchCmds asks for the ranges 1000 b + 1 .. 1000 (b + 1) of
\* its batches b, the last one ending at mbox.Messages
InOrder(j) ==
    LET full == Num(Fetches(j), 0)
    IN  /\ fetchCmds[j].from = Num(Fetches(j - 1), 1)
        /\ fetchCmds[j].to = (IF Lt(mboxMessages, full) THEN mboxMessages ELSE full)

FetchSelected ==
    \E i \in 1..Len(Cmds(R("fetch"))) :
        Cmds(R("fetch"))[i].cmd = "Select" /\ Cmds(R("fetch"))[i].ok

\* C29 as stated: FetchMessages on a mailbox reporting N messages works on
\* one session whose mailbox is selected read-only; its Fetch commands ask,
\* one after the other, for the consecutive ranges 1..1000, 1001..2000, ...
\* up to N; when all of them succeed there are ceil(N/1000) of them and the
\* call returns the messages 1..N, each once, without error; for N = 0 it
\* returns an empty list without any Fetch; when a Fetch fails it returns
\* the error and no messages.
C29_FetchInBatches ==
    FetchCalled =>
        /\ \A k \in Roles \ {R("fetch")} : sessions[k].dials = 0
        /\ sessions[R("fetch")].dials <= 1
        /\ \A i \in 1..Len(Cmds(R("fetch"))) :
              Cmds(R("fetch"))[i].cmd = "Select" => Cmds(R("fetch"))[i].readOnly
        /\ \A j \in 1..Len(fetchCmds) : InOrder(j)
        /\ (pc = "done" /\ FetchSelected) =>
              CASE mboxMessages = Zero ->
                     returned = EmptySlice /\ fetchCmds = <<>> /\ result = NoErr
                [] \E j \in 1..Len(fetchCmds) : ~fetchCmds[j].ok ->
                     /\ Mentions(result, "failed to fetch messages batch")
                     /\ returned = NilSlice
                [] OTHER ->
                     /\ result = NoErr
                     /\ Fetches(Len(fetchCmds)) = CeilBatches(mboxMessages)
                     /\ Len(returned.elems) = Len(fetchCmds)
                     /\ \A j \in 1..Len(fetchCmds) :
                           /\ returned.elems[j].from = fetchCmds[j].from
                           /\ returned.elems[j].to = fetchCmds[j].to
                     /\ returned.elems[1].from = One
                     /\ returned.elems[Len(fetchCmds)].to = mboxMessages

\* --------------------------------------------------------------------- C30
ListCalled == entry = "List"

\* C30: ListFolders called on its own.  When the List succeeds it returns,
\* without error, the names in the order of the server's listing, and nil
\* when nothing is listed; when the List fails it returns nil and the error
\* 'failed to list folders: list error'; in both cases the session carries
\* Login, List, Logout, with exactly one Logout.  On a dial error it returns
\* an error and the session carries no command, hence no Logout.  No state
\* has more than one Logout.
C30_ListFoldersContract ==
    ListCalled =>
        /\ sessions[R("list")].logouts <= 1
        /\ pc = "done" =>
              CASE Issued(R("list"), "List") # {} ->
                     LET list == Cmds(R("list"))[2]
                     IN  /\ Kinds(R("list")) = <<"Login", "List", "Logout">>
                         /\ sessions[R("list")].logouts = 1
                         /\ IF list.ok
                            THEN /\ result = NoErr
                                 /\ returned.elems = list.resp
                                 /\ list.resp = <<>> => returned = NilSlice
                            ELSE /\ result = Wrap("failed to list folders", Err("list error"))
                                 /\ returned = NilSlice
                [] sessions[R("list")].state = "none" ->
                     /\ sessions[R("list")].dials = 1
                     /\ result # NoErr
                     /\ Mentions(result, "failed to connect to server")
                     /\ Cmds(R("list")) = <<>>
                     /\ sessions[R("list")].logouts = 0
                [] OTHER -> TRUE

C30_Witness ==
    /\ ListCalled /\ pc = "done" /\ result = NoErr
    /\ Cmds(R("list"))[2].resp = << <<"Trash">>, Inbox, <<"Deleted Items">> >>
    /\ returned = [made |-> TRUE, elems |-> << <<"Trash">>, Inbox, <<"Deleted Items">> >>]
    /\ sessions[R("list")].logouts = 1

\* --------------------------------------------------------------------- C31
\* MoveMessages on the path of the batches
BatchPath == MoveCalled /\ ~GmailCase

\* C31 as stated: the verification session is dialed only when every batch
\* goroutine has returned and every one of them moved its batch without
\* error; the verification fetches are issued on that session alone, which
\* the verification pass dialed itself and on which it selected the source
\* folder; they ask for the input UIDs one at a time in input order, and a
\* fetch that returns the message is the last one: MoveMessages returns.
C31_VerificationAfterBatches ==
    BatchPath =>
        /\ sessions[R("verify")].dials > 0 =>
              /\ WaitReady(bpc)
              /\ gErr = NoErr
              /\ DOMAIN bpc = 1..Len(batches)
              /\ EveryMoveOk
              /\ \A i \in DOMAIN bpc : sessions[B(i)].state = "loggedout"
        /\ \A k \in Roles \ {R("verify")} : Issued(k, "UidFetch") = {}
        /\ VerifySeq # <<>> =>
              /\ sessions[R("verify")].opener = R("verify")
              /\ sessions[R("verify")].dials = 1
              /\ \A i \in 1..Len(Cmds(R("verify"))) : Cmds(R("verify"))[i].by = R("verify")
              /\ Cmds(R("verify"))[1].cmd = "Login"
              /\ Cmds(R("verify"))[2].cmd = "Select"
              /\ Cmds(R("verify"))[2].name = folder
              /\ Cmds(R("verify"))[2].ok
              /\ Cmds(R("verify"))[3].cmd = "UidFetch"
        /\ Len(VerifySeq) <= Len(messages)
        /\ \A k \in 1..Len(VerifySeq) :
              /\ VerifySeq[k].uids = {messages[k]}
              /\ VerifySeq[k].hit => (k = Len(VerifySeq) /\ pc = "done")

\* --------------------------------------------------------------------- C32
\* a batch goroutine has been started, or a UID MOVE issued
BatchStarted ==
    \/ CountCmd("UidMove") > 0
    \/ \E i \in 1..MaxBatches : sessions[B(i)].dials > 0
    \/ \E i \in DOMAIN bpc : bpc[i] # "start"

\* EnsureFolder has returned nil: it logged out and every command on its
\* session succeeded
EnsureSucceeded ==
    /\ sessions[R("ensure")].state = "loggedout"
    /\ \A i \in 1..Len(Cmds(R("ensure"))) : Cmds(R("ensure"))[i].ok

\* the error MoveMessages returned, without the context moveToTrash and
\* DeleteMessages add
MoveResult ==
    IF entry = "Delete" /\ result # NoErr /\ Len(result.ctx) >= 2
    THEN [result EXCEPT !.ctx = SubSeq(@, 3, Len(@))]
    ELSE result

\* C32: on the path of the batches no batch goroutine is started and no UID
\* MOVE issued unless the initial session selected the source folder and
\* EnsureFolder then returned nil, and from then on the destination folder
\* exists; when the initial connection fails MoveMessages returns 'failed to
\* connect to server: ...' without calling EnsureFolder, when EnsureFolder
\* fails it returns the error of EnsureFolder, in both cases without any
\* batch goroutine.
C32_NoMoveBeforeEnsure ==
    BatchPath =>
        /\ (BatchStarted \/ bpc # <<>>) =>
              /\ Selected(R("init"))
              /\ EnsureSucceeded
              /\ destFolder \in folders
        /\ \A i \in Issued(R("ensure"), "Create") : Selected(R("init"))
        /\ (pc = "done" /\ ~Selected(R("init"))) =>
              /\ MoveResult.ctx[1] = "failed to connect to server"
              /\ ~Opened(R("ensure")) /\ sessions[R("ensure")].dials = 0
              /\ ~BatchStarted
        /\ (pc = "done" /\ Selected(R("init")) /\ ~EnsureSucceeded) =>
              /\ MoveResult # NoErr
              /\ RootCause(MoveResult) \in {"dial error", "login error", "list error", "create error"}
              /\ sessions[R("ensure")].dials = 1
              /\ ~BatchStarted
              /\ bpc = <<>>

C32_Witness ==
    /\ BatchPath /\ entry = "Move"
    /\ destFolder = GmailTrash
    /\ Kinds(R("ensure")) = <<"Login", "List", "List", "Create", "List", "Create", "Logout">>
    /\ CountCmd("UidMove") = 1
    /\ \E m \in AllIssued("UidMove") : Cmds(m[1])[m[2]].hit
    /\ destFolder \in folders

\* --------------------------------------------------------------------- C33
\* every batch goroutine has returned and the server carried out the UID MOVE
\* of every batch
AllMoved ==
    /\ WaitReady(bpc)
    /\ \A i \in DOMAIN bpc : \E m \in MovesBy(i) : Cmds(m[1])[m[2]].hit

\* C33: on the path of the batches, in every state reached by any
\* interleaving of the batch goroutines, every input message is either in
\* the source or in the destination and not in both; a message that is not
\* in the input is in the source and not in the destination; and when the
\* server carried out the UID MOVE of every batch the source has lost
\* exactly the input messages and the destination holds exactly them.
C33_MovedExactlyOnce ==
    BatchPath =>
        /\ \A u \in Range(messages) : (u \in inSource) # (u \in inDest)
        /\ \A u \in (Uids \cup {OtherUid}) \ Range(messages) :
              u \in inSource /\ u \notin inDest
        /\ inDest \subseteq Range(messages)
        /\ (Launched /\ pc # "wait" /\ AllMoved) =>
              /\ inDest = Range(messages)
              /\ inSource = (Uids \cup {OtherUid}) \ Range(messages)

\* three messages moved in two batches that ran concurrently
C33_Witness ==
    /\ Launched /\ pc = "done" /\ result = NoErr /\ AllMoved
    /\ Len(messages) = 3 /\ Len(batches) = 2
    /\ firstFailed = 0
    /\ Cmds(B(2))[Len(Cmds(B(2)))].cmd = "Logout"
    /\ inDest = Range(messages)
    /\ inSource = {OtherUid}

\* --------------------------------------------------------------------- C34
\* C34 as stated: in DeleteMessages with purge=true and in moveToGmailTrash,
\* every message of the source folder whose UID is not in the input is
\* still in the folder in every state, the one that carried the Deleted
\* flag before the call included, and no such message gains the flag.
C34_OnlyInputRemoved ==
    (PurgeCase \/ (MoveCalled /\ GmailCase)) =>
        /\ \A u \in (Uids \cup {OtherUid}) \ Range(messages) : u \in inSource
        /\ flagged \ Range(messages) \subseteq {OtherUid}

\* --------------------------------------------------------------------- C35
\* the session was dialed and its Login succeeded
LoggedIn(k) == \E i \in Issued(k, "Login") : Cmds(k)[i].ok

\* C35 as stated: no session is ever logged out twice, and when
\* DeleteMessages, MoveMessages, EnsureFolder or SearchMessages (with the
\* ListFolders and EnsureFolder calls they make) has returned, every session
\* that was dialed and logged in has been logged out exactly once, the
\* Logout being its last command, also when the Select of the folder
\* failed after the Login.
C35_EverySessionLoggedOut ==
    /\ \A k \in Roles : sessions[k].logouts <= 1
    /\ (entry \in {"Delete", "Move", "Ensure", "Search"} /\ pc = "done") =>
          \A k \in Roles : LoggedIn(k) =>
              /\ sessions[k].logouts = 1
              /\ sessions[k].state = "loggedout"
              /\ LoggedOutLast(k)

\* --------------------------------------------------------------------- C36
SearchCalled == entry = "Search"

\* the commands of SearchMessages in the order of the code
SearchOrder == <<"Login", "Select", "Capability", "UidSearch", "UidFetch", "Logout">>

\* the position of a command in SearchOrder
OrderOf(c) == CHOOSE n \in 1..Len(SearchOrder) : SearchOrder[n] = c

\* the context SearchMessages puts before the error of a failed command
SearchErrors ==
    [Select |-> "failed to connect to mailbox",
     Capability |-> "failed to log server capabilities",
     UidSearch |-> "failed to search messages",
     UidFetch |-> "failed to fetch messages"]

\* C36: SearchMessages works on the search session alone; its commands come
\* in the order Login, Select, Capability, UID SEARCH, UID FETCH, Logout,
\* each at most once, none skipped before a later one; the Select names the
\* folder and is read-only; a command that failed is followed by nothing
\* but the Logout, and SearchMessages then returns an error that carries
\* the context of the failed command.
C36_SearchCommandOrder ==
    SearchCalled =>
        /\ \A k \in Roles \ {R("search")} : sessions[k].dials = 0
        /\ \A i \in 1..Len(SearchCmds) :
              /\ SearchCmds[i].cmd \in Range(SearchOrder)
              /\ i < Len(SearchCmds) =>
                    /\ OrderOf(SearchCmds[i].cmd) < OrderOf(SearchCmds[i + 1].cmd)
                    /\ SearchCmds[i].ok =>
                          \/ OrderOf(SearchCmds[i + 1].cmd) = OrderOf(SearchCmds[i].cmd) + 1
                          \/ SearchCmds[i + 1].cmd = "Logout"
                    /\ ~SearchCmds[i].ok => SearchCmds[i + 1].cmd = "Logout"
              /\ i = 1 => SearchCmds[i].cmd = "Login"
              /\ SearchCmds[i].cmd = "Select" =>
                    SearchCmds[i].readOnly /\ SearchCmds[i].name = folder
              /\ (pc = "done" /\ ~SearchCmds[i].ok /\ SearchCmds[i].cmd # "Login") =>
                    Mentions(result, SearchErrors[SearchCmds[i].cmd])
        /\ (pc = "done" /\ \E i \in 1..Len(SearchCmds) : ~SearchCmds[i].ok) => result # NoErr

\* the UID SEARCH failed after Select and Capability: no UID FETCH
C36_Witness ==
    /\ SearchDone
    /\ Kinds(R("search")) = <<"Login", "Select", "Capability", "UidSearch", "Logout">>
    /\ SearchCmds[2].readOnly
    /\ SearchCmds[3].ok /\ ~SearchCmds[4].ok
    /\ result = Wrap("failed to search messages", Err("search error"))

\* --------------------------------------------------------------------- C37
\* what the options ask of a message, filter by filter: a header filter asks
\* for its value in the header; the start bound for a message received and
\* dated on or after the start day; the end bound for one received and dated
\* on or before the end day; Seen (present and true) for the Seen flag,
\* Unseen (present and true) for its absence
HeaderFilter(m, o, f) == m[f] = o[f][1]
StartBound(m, o) == m.Internal >= o.StartDate[1] /\ m.Sent >= o.StartDate[1]
EndBound(m, o) == m.Internal <= o.EndDate[1] /\ m.Sent <= o.EndDate[1]
SeenFilter(m) == SeenFlag \in m.Flags
UnseenFilter(m) == SeenFlag \notin m.Flags

EveryFilter(m, o) ==
    /\ \A f \in HeaderFields : o[f] # <<>> => HeaderFilter(m, o, f)
    /\ o.StartDate # <<>> => StartBound(m, o)
    /\ o.EndDate # <<>> => EndBound(m, o)
    /\ o.Seen = <<TRUE>> => SeenFilter(m)
    /\ o.Unseen = <<TRUE>> => UnseenFilter(m)

SomeLeaf(m, o) ==
    \/ \E f \in HeaderFields : o[f] # <<>> /\ HeaderFilter(m, o, f)
    \/ o.StartDate # <<>> /\ o.EndDate # <<>> /\ StartBound(m, o) /\ EndBound(m, o)
    \/ o.StartDate # <<>> /\ o.EndDate = <<>> /\ StartBound(m, o)
    \/ o.StartDate = <<>> /\ o.EndDate # <<>> /\ EndBound(m, o)
    \/ o.Seen = <<TRUE>> /\ SeenFilter(m)
    \/ o.Unseen = <<TRUE>> /\ UnseenFilter(m)

NoLeaf(o) ==
    /\ \A f \in HeaderFields \cup {"StartDate", "EndDate"} : o[f] = <<>>
    /\ o.Seen # <<TRUE>> /\ o.Unseen # <<TRUE>>

\* the days that tell the messages apart for the options o: the day before,
\* the day of and the day after each bound that is set, and one day when no
\* bound is set
DaysAround(o) ==
    LET set == { o[f][1] : f \in { g \in {"StartDate", "EndDate"} : o[g] # <<>> } }
    IN  IF set = {} THEN {Date(2024, 1, 31)}
        ELSE UNION { {d - 1, d, d + 1} : d \in set }

MessagesAround(o) ==
    [To : {HeaderValues.To, OtherValue}, From : {HeaderValues.From, OtherValue},
     Subject : {HeaderValues.Subject, OtherValue},
     Internal : DaysAround(o), Sent : DaysAround(o), Flags : SUBSET {SeenFlag}]

\* C37: a message satisfies the result of BuildSearchCriteria exactly when it
\* satisfies every filter that is present in the options, and the result of
\* BuildORSearchCriteria exactly when the options have no leaf or the message
\* satisfies one leaf at least (a header, the two bounds together or the one
\* bound that is set, Seen, Unseen); the messages are tried when both
\* builders have returned.
C37_CriteriaMeanTheFilters ==
    BothBuilt =>
      \A m \in MessagesAround(opts) :
         /\ Satisfies(m, andCriteria) <=> EveryFilter(m, opts)
         /\ Satisfies(m, orCriteria) <=> (NoLeaf(opts) \/ SomeLeaf(m, opts))

\* a header, both bounds and Unseen are asked for: the message dated on the
\* end day, the last of February, with another sender and unread is rejected
\* by the one criteria and found by the other
C37_Witness ==
    /\ BothBuilt
    /\ opts.From # <<>> /\ opts.Unseen = <<TRUE>> /\ opts.Seen # <<TRUE>>
    /\ opts.StartDate = <<Date(2024, 1, 31)>> /\ opts.EndDate = <<Date(2024, 2, 29)>>
    /\ \E m \in MessagesAround(opts) :
          /\ m.From = OtherValue /\ m.Internal = Date(2024, 2, 29) /\ m.Sent = Date(2024, 2, 29)
          /\ m.Flags = {}
          /\ ~Satisfies(m, andCriteria)
          /\ Satisfies(m, orCriteria)
          /\ \E n \in MessagesAround(opts) :
                n.Sent = Date(2024, 3, 1) /\ n.Flags = {SeenFlag} /\ n.From = OtherValue
                /\ n.To = OtherValue /\ n.Subject = OtherValue
                /\ ~Satisfies(n, orCriteria)

\* --------------------------------------------------------------------- C38
\* the '/'-prefixes of a path: what precedes each '/', and the path itself
SlashPrefixes(p) ==
    { SubSeq(p, 1, k - 1) : k \in { j \in 1..(Len(p) + 1) : j = Len(p) + 1 \/ p[j] = Slash } }

\* the name exists among the folders fs (the empty name is the root of the
\* hierarchy, which the server always lists)
FolderExists(fs, name) == name = <<>> \/ name \in fs

\* with every folder, fs holds the '/'-prefixes of its name
ParentClosed(fs) == \A f \in fs : \A p \in SlashPrefixes(f) : FolderExists(fs, p)

\* a child is never created while its parent is missing: a set of folders
\* closed under parent prefixes before the call is closed in every state of
\* the call and after it, however the call ends
ClosureKept == ParentClosed(ListedFolders) => ParentClosed(folders)

\* C38 (as stated): after EnsureFolder returned nil every '/'-prefix of the
\* path exists, and a set of folders closed under parent prefixes before the
\* call stays closed throughout.
C38_EveryPrefixExists ==
    /\ EnsureSucceeded => \A p \in SlashPrefixes(folderName) : FolderExists(folders, p)
    /\ ClosureKept

\* C38 (amended): after EnsureFolder returned nil the path exists; every
\* '/'-prefix of it exists as well when the path was missing before the call
\* or the folders were closed under parent prefixes before the call; and a
\* set of folders closed under parent prefixes before the call is closed in
\* every state of the call and after it, also when the call ends with an
\* error.
C38_PathExistsClosureKept ==
    /\ EnsureSucceeded =>
          /\ folderName \in folders
          /\ (folderName \notin ListedFolders \/ ParentClosed(ListedFolders))
                => \A p \in SlashPrefixes(folderName) : FolderExists(folders, p)
    /\ ClosureKept

\* "a/b/c" is asked for where only "a/b" existed: "a" and "a/b/c" were
\* created and the call returned nil
C38_Witness ==
    /\ entry = "Ensure"
    /\ folderName = <<"a", "/", "b", "/", "c">>
    /\ ListedFolders = {Inbox, <<"a", "/", "b">>}
    /\ Created = {<<"a">>, folderName}
    /\ EnsureSucceeded
    /\ pc = "done" /\ result = NoErr
    /\ ParentClosed(folders)

\* --------------------------------------------------------------------- C39
\* the producer has sent every message and closed the channel
AllSent == closed /\ sendIdx = Len(folderMessages)

\* no worker is in its loop, holds the mutex or has a message left to read
NoWorkerRuns ==
    /\ \A w \in Workers : workers[w].pc = "done"
    /\ mu = 0
    /\ messageChan = <<>>

\* C39: the worker pool of CountMessagesBySender terminates for every number
\* of messages, also more than the 4 the channel holds: every run in which
\* the goroutines that can run do run ends with the table returned (or with
\* the error of the fetch); the channel is closed only when every message was
\* sent, a worker leaves only when the channel is closed and every message
\* was received, each by one worker, and the filtering by the threshold
\* starts only when all 4 workers have left and the mutex is free, so that
\* none reads or writes the map from then on.
C39_PoolTerminates ==
    /\ <>[](entry = "Senders" /\ pc = "done")
    /\ [](closed => sendIdx = Len(folderMessages))
    /\ [](\A w \in DOMAIN workers :
            workers[w].pc = "done"
              => AllSent /\ \A i \in 1..Len(folderMessages) : Cardinality(takenBy[i]) = 1)
    /\ [](SendersDone => AllSent /\ NoWorkerRuns)
    /\ [][SendersDone => senderCounts' = senderCounts /\ workers' = workers]_vars

\* five messages, one more than the channel holds, have been counted and the
\* call has returned
C39_Witness ==
    /\ SendersDone
    /\ Len(folderMessages) > NumWorkers
    /\ AllSent /\ NoWorkerRuns
    /\ \A i \in 1..Len(folderMessages) : folderMessages[i] # <<>>
    /\ senderCounts[<<"a", "@", "x.com">>] = Len(folderMessages)

====
